---- MODULE Spec2Model ----
(***************************************************************************)
(* A model of Utils.js (src/utils.js): helpers over the Frappe form object *)
(* cur_frm.  The form's field metadata is a list of field definitions; the *)
(* helpers partition it by Tab Break, check mandatory fields, navigate     *)
(* between tabs and add Previous/Next buttons to the tab panes.            *)
(***************************************************************************)
EXTENDS Integers, Sequences, FiniteSets, TLC

VARIABLES
    cur_frm,     \* "form" (a rendered form), "null" (no form) or "empty" (an object without meta, doc, fields_dict)
    fields,      \* cur_frm.meta.fields: the field-metadata list
    doc,         \* cur_frm.doc: fieldname -> is the value truthy
    reqd,        \* fieldnames whose df property reqd was set to 1
    dirty,       \* cur_frm.is_dirty()
    activeTab,   \* data-fieldname of "#form-tabs li .active", or NoTab
    op,          \* the last operation called, with its arguments
    ret,         \* what that operation returned
    threw,       \* did that operation throw
    effects,     \* the calls that operation made on the form, the DOM and frappe
    callbacks,   \* the caller's functions that step invoked, each with the context it received
    handler,     \* the click handler addTabButtons bound for ".tab-navigation", with the props and tabs it closes over
    held,        \* the continueNavigation function a callback of a click still holds
    saving,      \* the frm.save in flight, with what its callback is to do
    frappe,      \* the frappe object: the interceptor flags set on it and the handlers given to frappe.ui.form.on
    page,        \* the document: the nav-buttons containers in each tab pane and the click handlers bound on it
    interception,\* the trigger of a workflow action in progress: the before_workflow_action handlers still to run and what the running one waits for
    observer,    \* the watchers of Utils.observer: their flags on the form and their handlers given to frappe.ui.form.on
    form         \* cur_frm.doc.doctype, cur_frm.doc.workflow_state and the transitions of the form's workflow

vars == <<cur_frm, fields, doc, reqd, dirty, activeTab, op, ret, threw, effects, callbacks,
          handler, held, saving, frappe, page, interception, observer, form>>

\* ------------------------------------------------------------------ bounds
MaxFields == 4       \* longest field-metadata list of the query specifications
MaxNavFields == 5    \* longest field-metadata list of the navigation specification

\* ------------------------------------------------------------- field model
\* The name of the field at each position of a metadata list (Frappe keeps
\* the fieldnames of a DocType unique).
FieldNames == <<"f1", "f2", "f3", "f4", "f5", "f6", "f7", "f8">>

NoTab == "none"      \* no element matches "#form-tabs li .active"
Null == "null"       \* JavaScript null
Undefined == "undefined"

\* depends_on expressions, by what eval() makes of them
DependsOnExprs == {"", "eval:1", "eval:0", "eval:("}

\* The definitions a Tab Break can have at position i: shown with each
\* depends_on, or hidden with none or with a failing one.
TabBreakDefs(i) ==
    { [fieldname |-> FieldNames[i], fieldtype |-> "Tab Break", hidden |-> FALSE, depends_on |-> d] :
        d \in DependsOnExprs }
    \cup
    { [fieldname |-> FieldNames[i], fieldtype |-> "Tab Break", hidden |-> TRUE, depends_on |-> d] :
        d \in {"", "eval:0"} }

\* The definitions of the other fields at position i.
OtherDefs(i) ==
    { [fieldname |-> FieldNames[i], fieldtype |-> t, hidden |-> FALSE, depends_on |-> ""] :
        t \in {"Section Break", "Data"} }

FieldDefs(i) == TabBreakDefs(i) \cup OtherDefs(i)

\* All metadata lists of length n whose i-th field is drawn from D(i).
RECURSIVE MetaLists(_, _)
MetaLists(D(_), n) ==
    IF n = 0 THEN {<<>>}
    ELSE { Append(m, f) : m \in MetaLists(D, n - 1), f \in D(n) }

MetaListsUpTo(D(_), n) == UNION { MetaLists(D, k) : k \in 0..n }

Range(s) == { s[i] : i \in DOMAIN s }

\* frm?.meta?.fields is truthy
HasMetaFields == cur_frm = "form"

\* eval(expr) of getTabs, after "eval:" is cut off: "truthy", "falsy" or "throws"
evalDependsOn(depends_on) ==
    CASE depends_on = "eval:1" -> "truthy"
      [] depends_on = "eval:0" -> "falsy"
      [] OTHER -> "throws"

EmptyJson == [n \in {} |-> Null]

\* json[fieldname] = field, as an object-property assignment
SetKey(json, fieldname, field) ==
    [n \in DOMAIN json \cup {fieldname} |-> IF n = fieldname THEN field ELSE json[n]]

\* ------------------------------------------------------------------ getTabs
\* The test of one forEach step of getTabs: is the field at index pushed.
getTabsPushesNoEmptyCheck(index, excludeHidden) ==
    LET field == fields[index] IN
    /\ field.fieldtype = "Tab Break"
    /\ ~(excludeHidden /\ field.hidden)
    /\ (field.depends_on # "" => evalDependsOn(field.depends_on) = "truthy")

getTabsPushes(index, excludeHidden) ==
    LET field == fields[index] IN
    /\ field.fieldtype = "Tab Break"
    /\ ~(excludeHidden /\ field.hidden)
    /\ ~(/\ excludeHidden
         /\ (index + 1 > Len(fields) \/ fields[index + 1].fieldtype = "Tab Break"))
    /\ (field.depends_on # "" => evalDependsOn(field.depends_on) = "truthy")

RECURSIVE getTabsForEach(_, _, _)
getTabsForEach(index, excludeHidden, acc) ==
    IF index > Len(fields) THEN acc
    ELSE IF getTabsPushes(index, excludeHidden)
         THEN getTabsForEach(index + 1, excludeHidden,
                  [tabs |-> Append(acc.tabs, fields[index].fieldname),
                   json |-> SetKey(acc.json, fields[index].fieldname, fields[index])])
         ELSE getTabsForEach(index + 1, excludeHidden, acc)

getTabs(excludeHidden) ==
    IF ~HasMetaFields THEN [tabs |-> <<>>, json |-> EmptyJson]
    ELSE getTabsForEach(1, excludeHidden, [tabs |-> <<>>, json |-> EmptyJson])

\* ----------------------------------------------------------- getFieldsInTab
\* Array.prototype.findIndex over 1-based positions: 0 when nothing is found.
RECURSIVE findIndexFrom(_, _, _)
findIndexFrom(seq, P(_, _), index) ==
    IF index > Len(seq) THEN 0
    ELSE IF P(seq[index], index) THEN index
    ELSE findIndexFrom(seq, P, index + 1)

findIndex(seq, P(_, _)) == findIndexFrom(seq, P, 1)

\* Array.prototype.indexOf, 1-based: 0 when the element is absent.
indexOf(seq, x) == findIndex(seq, LAMBDA e, i : e = x)

RECURSIVE getFieldsInTabReduce(_, _)
getFieldsInTabReduce(fieldsInSection, accumulator) ==
    IF fieldsInSection = <<>> THEN accumulator
    ELSE getFieldsInTabReduce(Tail(fieldsInSection),
             [fields |-> Append(accumulator.fields, Head(fieldsInSection).fieldname),
              json |-> SetKey(accumulator.json, Head(fieldsInSection).fieldname,
                              Head(fieldsInSection))])

getFieldsInTabSliceThroughEnd(tab) ==
    IF ~HasMetaFields THEN [fields |-> <<>>, json |-> EmptyJson]
    ELSE LET tabStartIndex ==
                 findIndex(fields, LAMBDA field, index :
                     field.fieldtype = "Tab Break" /\ field.fieldname = tab)
             tabEndIndex ==
                 findIndex(fields, LAMBDA field, index :
                     index > tabStartIndex /\ field.fieldtype = "Tab Break")
         IN  IF tabStartIndex = 0 THEN [fields |-> <<>>, json |-> EmptyJson]
             ELSE getFieldsInTabReduce(
                      SubSeq(fields, tabStartIndex + 1,
                             IF tabEndIndex = 0 THEN Len(fields) ELSE tabEndIndex),
                      [fields |-> <<>>, json |-> EmptyJson])

getFieldsInTab(tab) ==
    IF ~HasMetaFields THEN [fields |-> <<>>, json |-> EmptyJson]
    ELSE LET tabStartIndex ==
                 findIndex(fields, LAMBDA field, index :
                     field.fieldtype = "Tab Break" /\ field.fieldname = tab)
             tabEndIndex ==
                 findIndex(fields, LAMBDA field, index :
                     index > tabStartIndex /\ field.fieldtype = "Tab Break")
         IN  IF tabStartIndex = 0 THEN [fields |-> <<>>, json |-> EmptyJson]
             ELSE getFieldsInTabReduce(
                      SubSeq(fields, tabStartIndex + 1,
                             IF tabEndIndex = 0 THEN Len(fields) ELSE tabEndIndex - 1),
                      [fields |-> <<>>, json |-> EmptyJson])

\* The previous getFieldsInTab(tabFieldName): frm.meta.fields.forEach from
\* position i on, with the flags collectFields and tabFound.
RECURSIVE getFieldsInTabForEach(_, _, _)
getFieldsInTabForEach(tabFieldName, i, acc) ==
    IF i > Len(fields) THEN acc
    ELSE LET field == fields[i]
             flagged ==
                 IF field.fieldtype = "Tab Break"
                 THEN IF field.fieldname = tabFieldName
                      THEN [acc EXCEPT !.tabFound = TRUE, !.collectFields = TRUE]
                      ELSE [acc EXCEPT !.collectFields = FALSE]
                 ELSE acc
             collected ==
                 IF flagged.collectFields /\ field.fieldtype # "Tab Break"
                 THEN [flagged EXCEPT
                          !.fieldsInTab = Append(@, field.fieldname),
                          !.fieldsInTabJSON = SetKey(@, field.fieldname, field)]
                 ELSE flagged
         IN getFieldsInTabForEach(tabFieldName, i + 1, collected)

getFieldsInTabPrevious(tabFieldName) ==
    IF ~HasMetaFields THEN EmptyJson
    ELSE LET done == getFieldsInTabForEach(tabFieldName, 1,
                         [fieldsInTab |-> <<>>, fieldsInTabJSON |-> EmptyJson,
                          collectFields |-> FALSE, tabFound |-> FALSE])
         IN [fields |-> done.fieldsInTab, json |-> done.fieldsInTabJSON]

\* ----------------------------------------------------------- checkMandatory
\* frm.fields_dict: the fields of the form, by fieldname
fields_dict == { fields[i].fieldname : i \in DOMAIN fields }

\* The names a caller can list or a document can carry: those of the form's
\* fields and one that no form of these bounds has.
DocNames == { FieldNames[i] : i \in 1..(MaxFields + 1) }

\* The listed fields that checkMandatory pushes to missingFields.
missingFieldsIgnoringForm(listed) == SelectSeq(listed, LAMBDA field : ~doc[field])

missingFields(listed) ==
    SelectSeq(listed, LAMBDA field : field \in fields_dict /\ ~doc[field])


\* ------------------------------------------------------------------ goToTab
\* The first field of a tab that goToTab can scroll to, or Null.
firstValidFieldAnyType(tabFields, json) ==
    LET at == findIndex(tabFields, LAMBDA fieldname, i : fieldname \in DOMAIN json)
    IN  IF at = 0 THEN Null ELSE tabFields[at]

firstValidField(tabFields, json) ==
    LET at == findIndex(tabFields, LAMBDA fieldname, i :
                  /\ fieldname \in DOMAIN json
                  /\ json[fieldname].fieldtype # "Column Break"
                  /\ json[fieldname].fieldtype # "Section Break")
    IN  IF at = 0 THEN Null ELSE tabFields[at]

\* a || null, for a tab taken from a list by position
OrNull(seq, i) == IF i \in DOMAIN seq THEN seq[i] ELSE Null

\* goToTab(props): the field it scrolls to (or Null) and the context it hands
\* to props.callback.
goToTab(props) ==
    IF ~HasMetaFields THEN [field |-> Null]
    ELSE LET inTab == getFieldsInTab(props.tab)
             first == firstValidField(inTab.fields, inTab.json)
         IN  IF Len(inTab.fields) = 0 \/ first = Null THEN [field |-> Null]
             ELSE [field |-> first,
                   context |-> [prevTab |-> props.prevTab,
                                currentTab |-> props.tab,
                                nextTab |-> props.nextTab]]

NoCall == [tab |-> Null]

\* The goToTab call that goToTab.next makes, or NoCall.
goToTabNextCall ==
    LET tabs == getTabs(TRUE).tabs
        currentTabIndex == indexOf(tabs, activeTab)
        nextTabIndex == currentTabIndex + 1
    IN  IF Len(tabs) = 0 \/ activeTab = NoTab \/ currentTabIndex = 0 THEN NoCall
        ELSE IF nextTabIndex <= Len(tabs)
             THEN [tab |-> tabs[nextTabIndex], prevTab |-> activeTab,
                   nextTab |-> OrNull(tabs, nextTabIndex + 1)]
             ELSE NoCall

\* The goToTab call that goToTab.previous makes, or NoCall.
goToTabPreviousCall ==
    LET tabs == getTabs(TRUE).tabs
        currentTabIndex == indexOf(tabs, activeTab)
        previousTabIndex == currentTabIndex - 1
    IN  IF Len(tabs) = 0 \/ activeTab = NoTab \/ currentTabIndex = 0 THEN NoCall
        ELSE IF previousTabIndex >= 1
             THEN [tab |-> tabs[previousTabIndex],
                   prevTab |-> OrNull(tabs, previousTabIndex - 1),
                   nextTab |-> activeTab]
             ELSE NoCall

\* frm.scroll_to_field(fieldname) makes the tab that holds the field the
\* active one: the last Tab Break before the field.
RECURSIVE tabOfField(_, _)
tabOfField(fieldname, index) ==
    IF index = 0 THEN activeTab
    ELSE IF fields[index].fieldtype = "Tab Break"
              /\ \E j \in index..Len(fields) : fields[j].fieldname = fieldname
         THEN fields[index].fieldname
         ELSE tabOfField(fieldname, index - 1)

\* ------------------------------------------------- hasNextTab, hasPreviousTab
hasNextTabAmongAllTabs ==
    LET tabs == getTabs(FALSE).tabs
        currentTabIndex == indexOf(tabs, activeTab)
        nextTabIndex == currentTabIndex + 1
    IN  IF Len(tabs) = 0 \/ activeTab = NoTab \/ currentTabIndex = 0
        THEN [hasNext |-> FALSE, nextTab |-> Null]
        ELSE [hasNext |-> nextTabIndex <= Len(tabs), nextTab |-> OrNull(tabs, nextTabIndex)]

hasNextTab ==
    LET tabs == getTabs(TRUE).tabs
        currentTabIndex == indexOf(tabs, activeTab)
        nextTabIndex == currentTabIndex + 1
    IN  IF Len(tabs) = 0 \/ activeTab = NoTab \/ currentTabIndex = 0
        THEN [hasNext |-> FALSE, nextTab |-> Null]
        ELSE [hasNext |-> nextTabIndex <= Len(tabs), nextTab |-> OrNull(tabs, nextTabIndex)]

hasPreviousTab ==
    LET tabs == getTabs(TRUE).tabs
        currentTabIndex == indexOf(tabs, activeTab)
        previousTabIndex == currentTabIndex - 1
    IN  IF Len(tabs) = 0 \/ activeTab = NoTab \/ currentTabIndex = 0
        THEN [hasPrevious |-> FALSE, previousTab |-> Null]
        ELSE [hasPrevious |-> previousTabIndex >= 1,
              previousTab |-> OrNull(tabs, previousTabIndex)]

\* ------------------------------------------------------- JavaScript values
JsTrue == [type |-> "boolean", value |-> TRUE]
JsArray(seq) == [type |-> "array", value |-> seq]
JsUndefined == [type |-> "undefined"]

\* The part of the state an operation of the query helpers leaves alone.
formVars == <<cur_frm, fields, doc, activeTab, frappe>>

\* The state of the tab buttons and of a save in flight.
btnVars == <<handler, held, saving>>

\* The state of the page outside the form object.
uiVars == <<page, interception, observer, form>>

NoHandler == [bound |-> FALSE]
NoCont == [by |-> "nobody"]
NoSave == [then |-> "nothing"]
NoFrappe == [flags |-> {}, on |-> <<>>, developer_mode |-> Undefined,
             hostname |-> "erp.example.com"]

\* Utils.site.getEnvironment(): frappe.boot.developer_mode decides when it is
\* defined, the hostname of the window otherwise.
devHosts == {"localhost", "127.0.0.1"}

getEnvironment ==
    IF frappe.developer_mode # Undefined
    THEN (IF frappe.developer_mode = "1" THEN "development" ELSE "production")
    ELSE (IF frappe.hostname \in devHosts THEN "development" ELSE "production")

\* props.debug: every use of it is `debug && isDevelopment`, so outside a
\* development environment both values act alike and one is drawn.
DebugFlags == IF getEnvironment = "development" THEN BOOLEAN ELSE {FALSE}

\* if (debug && isDevelopment) console.warn(...) or console.debug(...)
debugLog(debug) ==
    IF debug /\ getEnvironment = "development" THEN {"console.debug"} ELSE {}

\* No handler of before_workflow_action is running.
NoInterceptor == [kind |-> "none", action |-> "none", updateField |-> "none",
                  setValue |-> FALSE, fields |-> {}]

\* No workflow action was triggered yet.
NoInterception == [selected |-> "none", handlers |-> <<>>, pending |-> <<>>, current |-> NoInterceptor,
                   waiting |-> "nothing", composer |-> "none", log |-> <<>>,
                   outcome |-> "none", error |-> "none", dialog |-> "none", written |-> FALSE]

\* No watcher was created yet.
NoObserver == [flags |-> EmptyJson, handlers |-> <<>>]

\* A form of a doctype without a workflow.
PlainForm == [doctype |-> "Task", workflow_state |-> "", transitions |-> <<>>]

\* --------------------------------------------------------------- operations
\* Utils.getTabs({ excludeHidden })
GetTabs ==
    \E excludeHidden \in BOOLEAN :
        /\ op' = [name |-> "getTabs", excludeHidden |-> excludeHidden]
        /\ ret' = getTabs(excludeHidden)
        /\ threw' = FALSE
        /\ effects' = {}
        /\ callbacks' = <<>>
        /\ UNCHANGED <<uiVars, formVars, reqd, dirty, btnVars>>

\* Utils.getFieldsInTab({ tab })
GetFieldsInTab ==
    \E tab \in DocNames :
        /\ op' = [name |-> "getFieldsInTab", tab |-> tab]
        /\ ret' = getFieldsInTab(tab)
        /\ threw' = FALSE
        /\ effects' = {}
        /\ callbacks' = <<>>
        /\ UNCHANGED <<uiVars, formVars, reqd, dirty, btnVars>>

\* The lists of field names given to checkMandatory: none, one or two names
\* (two names show the order and a name listed twice).
ListedFields ==
    {<<>>} \cup { <<a>> : a \in DocNames } \cup { <<a, b>> : a \in DocNames, b \in DocNames }

\* Utils.checkMandatory({ fields: listed })
CheckMandatory ==
    \E listed \in ListedFields :
        /\ op' = [name |-> "checkMandatory", fields |-> listed]
        /\ threw' = FALSE
        /\ IF ~HasMetaFields
           THEN /\ ret' = JsArray(<<>>)
                /\ effects' = {}
                /\ UNCHANGED <<reqd, dirty>>
           ELSE LET missing == missingFields(listed) IN
                /\ reqd' = reqd \cup Range(missing)
                /\ dirty' = (dirty \/ Len(missing) > 0)
                /\ effects' = (IF Len(missing) > 0
                               THEN {"set_df_property", "refresh_field", "dirty"} ELSE {})
                /\ ret' = IF Len(missing) > 0 THEN JsArray(missing) ELSE JsTrue
        /\ callbacks' = <<>>
        /\ UNCHANGED <<uiVars, formVars, btnVars>>

\* What a goToTab call does to the page: the tab that is active after it, did
\* it scroll, and the invocation of the callback (named hook) if it made one.
navigate(call, hasCallback, hook) ==
    LET out == IF call = NoCall THEN [field |-> Null] ELSE goToTab(call) IN
    IF out.field = Null
    THEN [activeTab |-> activeTab, scrolled |-> FALSE, callbacks |-> <<>>]
    ELSE [activeTab |-> tabOfField(out.field, Len(fields)),
          scrolled |-> TRUE,
          callbacks |-> IF hasCallback
                        THEN << [hook |-> hook,
                                 prevTab |-> out.context.prevTab,
                                 currentTab |-> out.context.currentTab,
                                 nextTab |-> out.context.nextTab] >>
                        ELSE <<>>]

\* The steps of an operation that navigates and does nothing else.
Navigates(call, hasCallback) ==
    LET nav == navigate(call, hasCallback, "callback") IN
    /\ activeTab' = nav.activeTab
    /\ effects' = (IF nav.scrolled THEN {"scroll_to_field"} ELSE {})
    /\ callbacks' = nav.callbacks
    /\ ret' = JsUndefined
    /\ threw' = FALSE
    /\ UNCHANGED <<uiVars, frappe, cur_frm, fields, doc, reqd, dirty, btnVars>>

\* The fieldnames of the Tab Breaks of the form.
TabBreakNames == { fields[i].fieldname : i \in { j \in DOMAIN fields : fields[j].fieldtype = "Tab Break" } }

\* Utils.goToTab({ tab, callback }), for each Tab Break and for a name the form lacks
GoToTab ==
    \E tab \in TabBreakNames \cup {FieldNames[Len(fields) + 1]}, hasCallback \in BOOLEAN :
        /\ op' = [name |-> "goToTab", tab |-> tab, callback |-> hasCallback, from |-> activeTab]
        /\ Navigates([tab |-> tab, prevTab |-> Undefined, nextTab |-> Undefined], hasCallback)

\* Utils.goToTab.next({ callback })
GoToTabNext ==
    \E hasCallback \in BOOLEAN :
        /\ op' = [name |-> "goToTab.next", callback |-> hasCallback, from |-> activeTab]
        /\ Navigates(goToTabNextCall, hasCallback)

\* Utils.goToTab.previous({ callback })
GoToTabPrevious ==
    \E hasCallback \in BOOLEAN :
        /\ op' = [name |-> "goToTab.previous", callback |-> hasCallback, from |-> activeTab]
        /\ Navigates(goToTabPreviousCall, hasCallback)

\* Utils.hasNextTab()
HasNextTab ==
    /\ op' = [name |-> "hasNextTab", from |-> activeTab]
    /\ ret' = hasNextTab
    /\ threw' = FALSE
    /\ effects' = {}
    /\ callbacks' = <<>>
    /\ UNCHANGED <<uiVars, formVars, reqd, dirty, btnVars>>

\* Utils.hasPreviousTab()
HasPreviousTab ==
    /\ op' = [name |-> "hasPreviousTab", from |-> activeTab]
    /\ ret' = hasPreviousTab
    /\ threw' = FALSE
    /\ effects' = {}
    /\ callbacks' = <<>>
    /\ UNCHANGED <<uiVars, formVars, reqd, dirty, btnVars>>

\* The user clicks a tab link of #form-tabs: that tab becomes the active one.
SelectTab ==
    \E tab \in TabBreakNames :
        /\ tab # activeTab
        /\ \E i \in DOMAIN fields : fields[i].fieldname = tab /\ ~fields[i].hidden
        /\ activeTab' = tab
        /\ op' = [name |-> "selectTab", from |-> activeTab]
        /\ ret' = JsUndefined
        /\ threw' = FALSE
        /\ effects' = {}
        /\ callbacks' = <<>>
        /\ UNCHANGED <<uiVars, frappe, cur_frm, fields, doc, reqd, dirty, btnVars>>

\* ------------------------------------------------------------- saveCallback
\* What the callback of a finished save, or of saveCallback on a clean form,
\* does: the goToTab call of goToTab.save, goToTab.next.save or
\* goToTab.previous.save.
callAfterSave(then) ==
    CASE then.then = "next" -> goToTabNextCall
      [] then.then = "previous" -> goToTabPreviousCall
      [] OTHER -> [tab |-> then.tab, prevTab |-> Undefined, nextTab |-> Undefined]

SaveCallbackWithoutWaiting(then) ==
    IF cur_frm # "form"
    THEN /\ threw' = TRUE
         /\ effects' = {}
         /\ callbacks' = <<>>
         /\ UNCHANGED <<activeTab, saving>>
    ELSE LET nav == navigate(callAfterSave(then), then.callback, then.hook) IN
         /\ threw' = FALSE
         /\ effects' = (IF nav.scrolled THEN {"scroll_to_field"} ELSE {})
                        \cup (IF dirty THEN {"save"} ELSE {})
         /\ callbacks' = nav.callbacks
         /\ activeTab' = nav.activeTab
         /\ UNCHANGED saving

\* saveCallback(() => ...): on a dirty form frm.save is started and the
\* navigation waits for its callback; on a clean form the navigation runs now.
\* Of two saves started one during the other, Frappe completes one: which
\* callback is left to run is not this library's choice.
\* Without a form frm.is_dirty() throws a TypeError.
SaveCallback(then) ==
    IF cur_frm # "form"
    THEN /\ threw' = TRUE
         /\ effects' = {}
         /\ callbacks' = <<>>
         /\ UNCHANGED <<activeTab, saving>>
    ELSE IF dirty
    THEN /\ threw' = FALSE
         /\ effects' = {"save"}
         /\ callbacks' = <<>>
         /\ saving' \in (IF saving = NoSave THEN {then} ELSE {saving, then})
         /\ UNCHANGED activeTab
    ELSE LET nav == navigate(callAfterSave(then), then.callback, then.hook) IN
         /\ threw' = FALSE
         /\ effects' = (IF nav.scrolled THEN {"scroll_to_field"} ELSE {})
         /\ callbacks' = nav.callbacks
         /\ activeTab' = nav.activeTab
         /\ UNCHANGED saving

\* Utils.goToTab.save({ tab, callback })
GoToTabSave ==
    \E tab \in TabBreakNames \cup {FieldNames[Len(fields) + 1]}, hasCallback \in BOOLEAN :
        /\ saving = NoSave
        /\ op' = [name |-> "goToTab.save", tab |-> tab, callback |-> hasCallback, from |-> activeTab]
        /\ SaveCallback([then |-> "tab", tab |-> tab, callback |-> hasCallback, hook |-> "callback"])
        /\ ret' = JsUndefined
        /\ UNCHANGED <<uiVars, frappe, cur_frm, fields, doc, reqd, dirty, handler, held>>

\* Utils.goToTab.next.save({ callback })
GoToTabNextSave ==
    \E hasCallback \in BOOLEAN :
        /\ saving = NoSave
        /\ op' = [name |-> "goToTab.next.save", callback |-> hasCallback, from |-> activeTab]
        /\ SaveCallback([then |-> "next", callback |-> hasCallback, hook |-> "callback"])
        /\ ret' = JsUndefined
        /\ UNCHANGED <<uiVars, frappe, cur_frm, fields, doc, reqd, dirty, handler, held>>

\* Utils.goToTab.previous.save({ callback })
GoToTabPreviousSave ==
    \E hasCallback \in BOOLEAN :
        /\ saving = NoSave
        /\ op' = [name |-> "goToTab.previous.save", callback |-> hasCallback, from |-> activeTab]
        /\ SaveCallback([then |-> "previous", callback |-> hasCallback, hook |-> "callback"])
        /\ ret' = JsUndefined
        /\ UNCHANGED <<uiVars, frappe, cur_frm, fields, doc, reqd, dirty, handler, held>>

\* frm.save succeeds: the form is clean and the callback given to it runs.
SaveCompletes ==
    /\ saving # NoSave
    /\ page.slowValidate => page.frozen
    /\ page' = [page EXCEPT !.frozen = FALSE]
    /\ UNCHANGED <<interception, observer, form>>
    /\ LET nav == navigate(callAfterSave(saving), saving.callback, saving.hook) IN
       /\ effects' = (IF nav.scrolled THEN {"scroll_to_field"} ELSE {})
       /\ callbacks' = nav.callbacks
       /\ activeTab' = nav.activeTab
    /\ dirty' = FALSE
    /\ saving' = NoSave
    /\ op' = [name |-> "saveCompletes", then |-> saving.then, from |-> activeTab]
    /\ ret' = JsUndefined
    /\ threw' = FALSE
    /\ UNCHANGED <<frappe, cur_frm, fields, doc, reqd, handler, held>>

\* frm.save does not complete (the validation of the form stops it): its
\* callback is never run.
SaveFails ==
    /\ saving # NoSave
    /\ saving' = NoSave
    /\ page' = [page EXCEPT !.frozen = FALSE]
    /\ UNCHANGED <<interception, observer, form>>
    /\ op' = [name |-> "saveFails", then |-> saving.then, from |-> activeTab]
    /\ ret' = JsUndefined
    /\ threw' = FALSE
    /\ effects' = {}
    /\ callbacks' = <<>>
    /\ UNCHANGED <<frappe, cur_frm, fields, doc, reqd, dirty, activeTab, handler, held>>

\* The user edits a field of the form: the form is dirty.
UserEdits ==
    /\ cur_frm = "form"
    /\ saving = NoSave
    /\ ~dirty
    /\ dirty' = TRUE
    /\ op' = [name |-> "userEdits", from |-> activeTab]
    /\ ret' = JsUndefined
    /\ threw' = FALSE
    /\ effects' = {}
    /\ callbacks' = <<>>
    /\ UNCHANGED <<uiVars, frappe, cur_frm, fields, doc, reqd, activeTab, btnVars>>

\* ------------------------------------------------------------ addTabButtons
\* props.saveConfig: not given, given without a direction, or with one
SaveConfigs ==
    { [given |-> FALSE] }
    \cup { [given |-> TRUE, direction |-> d] :
             d \in {Undefined, "forward", "backward", "bidirectional"} }

\* props.saveTabs: not given, ['*'], or the first field of the form
SaveTabsChoices == { {}, {"*"}, {FieldNames[1]} }

\* The props of an addTabButtons call, as far as the click handler reads
\* them; afterNavigation is given.
TabButtonProps ==
    [saveTabs : SaveTabsChoices, saveConfig : SaveConfigs,
     beforeNavigation : BOOLEAN, onNext : BOOLEAN, onPrev : BOOLEAN,
     afterNavigation : {TRUE}]

\* continueNavigation's decision: is the form saved before the tab change.
shouldSave(props, direction, currentTabFieldname) ==
    LET isCurrentTabInSaveTabs ==
            "*" \in props.saveTabs \/ currentTabFieldname \in props.saveTabs
    IN  IF isCurrentTabInSaveTabs
        THEN IF props.saveConfig.given
             THEN LET saveDirection == props.saveConfig.direction IN
                  \/ (saveDirection = "forward" /\ direction = "next")
                  \/ (saveDirection = "backward" /\ direction = "previous")
                  \/ saveDirection = "bidirectional"
             ELSE TRUE
        ELSE FALSE

\* continueNavigation() of the click on the direction button made while
\* currentTabFieldname was active: goToTab.<direction>.save or goToTab.<direction>.
ContinueNavigation(direction, currentTabFieldname, before) ==
    IF shouldSave(handler.props, direction, currentTabFieldname)
    THEN SaveCallback([then |-> direction, callback |-> handler.props.afterNavigation,
                       hook |-> "afterNavigation"])
    ELSE LET call == IF direction = "next" THEN goToTabNextCall ELSE goToTabPreviousCall
             nav == navigate(call, handler.props.afterNavigation, "afterNavigation")
         IN  /\ threw' = FALSE
             /\ effects' = (IF nav.scrolled THEN {"scroll_to_field"} ELSE {})
             /\ callbacks' = before \o nav.callbacks
             /\ activeTab' = nav.activeTab
             /\ UNCHANGED saving

\* Is the button of a direction rendered on the pane of the active tab.
ButtonRendered(direction) ==
    LET currentTabIndex == indexOf(handler.tabs, activeTab) IN
    IF direction = "previous" THEN currentTabIndex > 1
    ELSE currentTabIndex < Len(handler.tabs)

\* What beforeNavigation returns: false, nothing, or true.
BeforeResults == {"false", "undefined", "true"}

stopsNavigationWhenFalsy(shouldProceed) == shouldProceed \in {"false", "undefined"}

\* shouldProceed === false
stopsNavigation(shouldProceed) == shouldProceed = "false"

\* Do the props hand the click on the direction button to onNext or onPrev.
overridesNavigationSwapped(props, direction) ==
    \/ (direction = "next" /\ props.onPrev)
    \/ (direction = "previous" /\ props.onNext)

overridesNavigation(props, direction) ==
    \/ (direction = "next" /\ props.onNext)
    \/ (direction = "previous" /\ props.onPrev)

\* The call of one of the props' functions with the context of a click.
HookCall(hook, currentTabIndex) ==
    [hook |-> hook,
     prevTab |-> OrNull(handler.tabs, currentTabIndex - 1),
     currentTab |-> activeTab,
     nextTab |-> OrNull(handler.tabs, currentTabIndex + 1)]

\* frappe.dom.freeze(): while a save request is in flight the page takes no
\* click.  The request follows frm.save at once, or after the validate
\* handlers of a form that has slow ones.
Frozen == saving # NoSave /\ (page.slowValidate => page.frozen)

\* $(this).prop("disabled", true): the buttons that are disabled.
disableButton(disabled, button) == disabled \cup {button}

\* A click on the Previous or Next button of the active tab's pane.  The
\* handler calls beforeNavigation and stops if it returns false; it hands the
\* click to onNext or onPrev if the props have it, and otherwise continues
\* the navigation itself.  A beforeNavigation that returns false may keep the
\* continueNavigation function it was given, to call it later; so does onNext
\* or onPrev.
ClickTabNavigation ==
    \E direction \in {"previous", "next"}, returned \in BeforeResults, keeps \in BOOLEAN :
        LET currentTabIndex == indexOf(handler.tabs, activeTab)
            before == IF handler.props.beforeNavigation
                      THEN << HookCall("beforeNavigation", currentTabIndex) >> ELSE <<>>
            stopped == handler.props.beforeNavigation /\ stopsNavigation(returned)
            handed == overridesNavigation(handler.props, direction)
            path == IF stopped THEN "stopped"
                    ELSE IF handed THEN "handed"
                    ELSE IF shouldSave(handler.props, direction, activeTab) THEN "save"
                    ELSE "direct"
        IN
        /\ cur_frm = "form"
        /\ handler.bound
        /\ held = NoCont
        /\ ~Frozen
        /\ activeTab # NoTab
        /\ ButtonRendered(direction)
        /\ [tab |-> activeTab, direction |-> direction] \notin page.disabled
        /\ page' = [page EXCEPT !.disabled =
                        disableButton(@, [tab |-> activeTab, direction |-> direction])]
        /\ UNCHANGED <<interception, observer, form>>
        /\ handler.props.beforeNavigation \/ returned = "undefined"
        /\ (handler.props.beforeNavigation /\ returned = "false") \/ ~keeps
        /\ op' = [name |-> "click", direction |-> direction, from |-> activeTab,
                  clickTab |-> activeTab,
                  before |-> (IF handler.props.beforeNavigation THEN returned ELSE "absent"),
                  path |-> path]
        /\ ret' = JsUndefined
        /\ IF stopped
           THEN /\ held' = (IF keeps
                            THEN [by |-> "beforeNavigation", direction |-> direction,
                                  currentTab |-> activeTab, before |-> returned]
                            ELSE NoCont)
                /\ callbacks' = before
                /\ threw' = FALSE
                /\ effects' = {}
                /\ UNCHANGED <<activeTab, saving>>
           ELSE IF handed
           THEN /\ held' = [by |-> (IF direction = "next" THEN "onNext" ELSE "onPrev"),
                            direction |-> direction, currentTab |-> activeTab,
                            before |-> (IF handler.props.beforeNavigation THEN returned ELSE "absent")]
                /\ callbacks' = before \o
                      << HookCall(IF direction = "next" THEN "onNext" ELSE "onPrev", currentTabIndex) >>
                /\ threw' = FALSE
                /\ effects' = {}
                /\ UNCHANGED <<activeTab, saving>>
           ELSE /\ ContinueNavigation(direction, activeTab, before)
                /\ UNCHANGED held
        /\ UNCHANGED <<frappe, cur_frm, fields, doc, reqd, dirty, handler>>

\* setTimeout(() => $(this).prop("disabled", false), 1000): the timer of a
\* clicked button fires and the button is enabled again.
TimerFires ==
    \E button \in page.disabled :
        /\ page' = [page EXCEPT !.disabled = @ \ {button}]
        /\ UNCHANGED <<interception, observer, form>>
        /\ op' = [name |-> "timerFires", button |-> button, from |-> activeTab]
        /\ ret' = JsUndefined
        /\ threw' = FALSE
        /\ effects' = {}
        /\ callbacks' = <<>>
        /\ UNCHANGED <<formVars, reqd, dirty, btnVars>>

\* The validate handlers of the form are through: the save request is sent
\* and the page is frozen.
SaveFreezes ==
    /\ saving # NoSave
    /\ page.slowValidate
    /\ ~page.frozen
    /\ page' = [page EXCEPT !.frozen = TRUE]
    /\ UNCHANGED <<interception, observer, form>>
    /\ op' = [name |-> "saveFreezes", from |-> activeTab]
    /\ ret' = JsUndefined
    /\ threw' = FALSE
    /\ effects' = {"freeze"}
    /\ callbacks' = <<>>
    /\ UNCHANGED <<formVars, reqd, dirty, btnVars>>

\* The callback that holds continueNavigation calls it.
CallbackContinues ==
    /\ held # NoCont
    /\ saving = NoSave
    /\ LET path == IF shouldSave(handler.props, held.direction, held.currentTab)
                   THEN "save" ELSE "direct"
       IN  op' = [name |-> "continueNavigation", direction |-> held.direction,
                  from |-> activeTab, clickTab |-> held.currentTab,
                  before |-> held.before, by |-> held.by, path |-> path]
    /\ ContinueNavigation(held.direction, held.currentTab, <<>>)
    /\ held' = NoCont
    /\ ret' = JsUndefined
    /\ UNCHANGED <<uiVars, frappe, cur_frm, fields, doc, reqd, dirty, handler>>

\* The callback that holds continueNavigation gives it up (the user cancels
\* the dialog, the validation fails).
CallbackGivesUp ==
    /\ held # NoCont
    /\ held' = NoCont
    /\ op' = [name |-> "giveUp", from |-> activeTab, by |-> held.by]
    /\ ret' = JsUndefined
    /\ threw' = FALSE
    /\ effects' = {}
    /\ callbacks' = <<>>
    /\ UNCHANGED <<uiVars, frappe, cur_frm, fields, doc, reqd, dirty, activeTab, handler, saving>>

\* ------------------------------------------------- the other public calls
\* A call that returns value and touches nothing.
Returns(call, value) ==
    /\ op' = call
    /\ ret' = value
    /\ threw' = FALSE
    /\ effects' = {}
    /\ callbacks' = <<>>
    /\ UNCHANGED <<uiVars, formVars, reqd, dirty, btnVars>>

\* The forEach of getFieldsInSection and getFieldsInColumn from position
\* index on: collectFields is switched on by the break named name and off by
\* the next break of that type.
RECURSIVE collectAfterBreak(_, _, _, _, _)
collectAfterBreak(breakType, name, index, collectFields, acc) ==
    IF index > Len(fields) THEN acc
    ELSE LET field == fields[index]
             collect == IF field.fieldtype = breakType
                        THEN field.fieldname = name
                        ELSE collectFields
         IN  IF collect /\ field.fieldtype # breakType
             THEN collectAfterBreak(breakType, name, index + 1, collect,
                      [fields |-> Append(acc.fields, field.fieldname),
                       json |-> SetKey(acc.json, field.fieldname, field)])
             ELSE collectAfterBreak(breakType, name, index + 1, collect, acc)

getFieldsInSection(section) ==
    IF ~HasMetaFields THEN EmptyJson
    ELSE collectAfterBreak("Section Break", section, 1, FALSE,
                           [fields |-> <<>>, json |-> EmptyJson])

getFieldsInColumn(column) ==
    IF ~HasMetaFields THEN EmptyJson
    ELSE collectAfterBreak("Column Break", column, 1, FALSE,
                           [fields |-> <<>>, json |-> EmptyJson])

\* Utils.getFieldsInSection({ section })
GetFieldsInSection ==
    \E section \in DocNames :
        Returns([name |-> "getFieldsInSection", section |-> section], getFieldsInSection(section))

\* Utils.getFieldsInColumn({ column })
GetFieldsInColumn ==
    \E column \in DocNames :
        Returns([name |-> "getFieldsInColumn", column |-> column], getFieldsInColumn(column))

\* Utils.changeWorkflowState({ newState, currentStateCheck, autoSave: false })
\* on a document without a workflow state.  Only a missing form is guarded: on
\* an object without doc and set_value the reads and calls throw a TypeError.
ChangeWorkflowState ==
    \E currentStateCheck \in BOOLEAN :
        /\ op' = [name |-> "changeWorkflowState", currentStateCheck |-> currentStateCheck,
                  autoSave |-> FALSE]
        /\ ret' = JsUndefined
        /\ callbacks' = <<>>
        /\ CASE cur_frm = "null" ->
                  /\ threw' = FALSE
                  /\ effects' = {}
                  /\ UNCHANGED dirty
             [] cur_frm = "empty" ->
                  /\ threw' = TRUE
                  /\ effects' = {}
                  /\ UNCHANGED dirty
             [] OTHER ->
                  /\ threw' = FALSE
                  /\ IF currentStateCheck
                     THEN effects' = {} /\ UNCHANGED dirty
                     ELSE effects' = {"set_value", "refresh_field"} /\ dirty' = TRUE
        /\ UNCHANGED <<uiVars, formVars, reqd, btnVars>>

\* The lists of field names given to makeReadOnly and hideFields.
FewListedFields == {<<>>} \cup { <<a>> : a \in DocNames }

\* Utils.makeReadOnly({ fields: listed, permissions }), bypass telling
\* whether the user has one of the roles of permissions.
MakeReadOnly ==
    \E listed \in FewListedFields, bypass \in BOOLEAN :
        /\ op' = [name |-> "makeReadOnly", fields |-> listed, bypass |-> bypass]
        /\ threw' = FALSE
        /\ callbacks' = <<>>
        /\ IF cur_frm # "form"
           THEN ret' = JsArray(<<>>) /\ effects' = {}
           ELSE /\ ret' = JsUndefined
                /\ effects' = IF ~bypass /\ Range(listed) \cap fields_dict # {}
                              THEN {"set_df_property", "refresh_field"} ELSE {}
        /\ UNCHANGED <<uiVars, formVars, reqd, dirty, btnVars>>

\* props.exceptionStates of hideFields
ExceptionStateLists == {<<>>, <<"Review">>}

\* exceptionStates.includes(frm.doc.workflow_state)
isExceptionState(exceptionStates) == form.workflow_state \in Range(exceptionStates)

\* frm.set_df_property(field, "hidden", hidden) for each listed field of the form
setHidden(listed, hidden) ==
    [i \in DOMAIN fields |->
        IF fields[i].fieldname \in Range(listed)
        THEN [fields[i] EXCEPT !.hidden = hidden] ELSE fields[i]]

\* Utils.hideFields({ fields: listed, exceptionStates, conditional }) with no
\* conditional, a function that returns a truthy or a falsy value, or a value
\* that is not a function: conditional is called for each listed field of the
\* form, also when it was not given, and calling undefined throws a TypeError
\* before any property is set.
HideFields ==
    \E listed \in FewListedFields, conditional \in {"absent", "truthy", "falsy", "other"},
       exceptionStates \in ExceptionStateLists :
        /\ op' = [name |-> "hideFields", fields |-> listed, conditional |-> conditional,
                  exceptionStates |-> exceptionStates]
        /\ ret' = JsUndefined
        /\ callbacks' = <<>>
        /\ IF cur_frm # "form" \/ conditional = "other" \/ Range(listed) \cap fields_dict = {}
           THEN threw' = FALSE /\ effects' = {} /\ UNCHANGED fields
           ELSE IF conditional = "absent"
           THEN threw' = TRUE /\ effects' = {} /\ UNCHANGED fields
           ELSE /\ threw' = FALSE
                /\ effects' = {"set_df_property", "refresh_field"}
                /\ fields' = setHidden(listed,
                                 ~(isExceptionState(exceptionStates) \/ conditional # "truthy"))
        /\ UNCHANGED <<uiVars, cur_frm, doc, activeTab, frappe, reqd, dirty, btnVars>>

\* The props of the addTabButtons calls: those of TabButtonProps without
\* saveConfig and without hooks other than afterNavigation.
PlainTabButtonProps ==
    { props \in TabButtonProps :
        /\ ~props.saveConfig.given
        /\ ~props.beforeNavigation /\ ~props.onNext /\ ~props.onPrev }

\* $(".tab-pane"): one pane for each Tab Break of a rendered form.
TabPanes == IF cur_frm = "form" THEN TabBreakNames ELSE {}

\* The page before addTabButtons was ever called.
NoPage ==
    [containers |-> [pane \in TabPanes |-> <<>>], navigation |-> <<>>, custom |-> <<>>,
     rendered |-> [pane \in TabPanes |-> <<>>],
     disabled |-> {}, slowValidate |-> FALSE, frozen |-> FALSE]

\* $("div.nav-buttons").remove(): the containers left in each pane.
removeNavButtonsOfNoPane(containers) == containers

removeNavButtons(containers) == [pane \in DOMAIN containers |-> <<>>]

\* $(".tab-pane").each(... $(this).append(buttonHtml)): a container for the
\* tab is added to each pane.
appendNavButtons(containers) ==
    [pane \in DOMAIN containers |-> Append(containers[pane], [tab |-> pane])]

\* $(document).off("click", selector): the handlers left bound for it.
offKeepsHandlers(handlers) == handlers

off(handlers) == <<>>

\* $(document).on("click", selector, fn)
on(handlers, fn) == Append(handlers, fn)

\* The filter of props.buttons, at rendering and in the click handler: the
\* button is for the tab, the workflow state is among its workflowStates if
\* it has them, and its conditional, if it has one, returns a truthy value
\* (the conditionals here return the value of a field of the document).
applicable(btn, tab) ==
    /\ btn.tab = tab
    /\ ("workflowStates" \notin DOMAIN btn \/ form.workflow_state \in btn.workflowStates)
    /\ ("conditional" \notin DOMAIN btn \/ doc[btn.conditional])

applicableButtons(props, tab) ==
    IF "buttons" \in DOMAIN props
    THEN SelectSeq(props.buttons, LAMBDA btn : applicable(btn, tab))
    ELSE <<>>

\* btnConfig = applicableButtons[cbIndex], undefined past the end
buttonAt(buttons, cbIndex) ==
    IF cbIndex + 1 \in DOMAIN buttons THEN <<buttons[cbIndex + 1]>> ELSE <<>>

\* The custom buttons rendered on each pane: filtered.map((btn, index) => ...)
\* with data-tab, data-cb-index and the label.
renderCustomButtons(props) ==
    [pane \in TabPanes |->
        LET filtered == applicableButtons(props, pane) IN
        [index \in DOMAIN filtered |->
            [tab |-> pane, cbIndex |-> index - 1, label |-> filtered[index].label]]]

\* The page after an addTabButtons call that binds fn; the buttons it
\* renders are new and enabled.
addTabButtonsPage(fn) ==
    [page EXCEPT !.containers = appendNavButtons(removeNavButtons(@)),
                 !.navigation = on(off(@), fn),
                 !.custom = on(off(@), [props |-> fn.props]),
                 !.rendered = renderCustomButtons(fn.props),
                 !.disabled = {}]

\* Utils.addTabButtons(props): the buttons are added to the tab panes of the
\* form, if there is one, with the custom buttons that pass the filter, and
\* the click handlers for ".tab-navigation" and ".custom-tab-button" are
\* bound anew, closing over props and the visible tabs.
AddTabButtonsWith(props) ==
    /\ op' = [name |-> "addTabButtons", props |-> props]
    /\ handler' = [bound |-> TRUE, props |-> props, tabs |-> getTabs(TRUE).tabs]
    /\ page' = addTabButtonsPage(handler')
    /\ UNCHANGED <<interception, observer, form>>
    /\ ret' = [buttonRefs |-> IF cur_frm = "form" THEN TabBreakNames ELSE {}]
    /\ threw' = FALSE
    /\ effects' = {"off", "on"} \cup (IF cur_frm = "form" THEN {"append"} ELSE {})
    /\ callbacks' = <<>>
    /\ UNCHANGED <<formVars, reqd, dirty, held, saving>>

\* Utils.addTabButtons(props) without custom buttons
AddTabButtons == \E props \in PlainTabButtonProps : AddTabButtonsWith(props)

\* The callbacks that the handlers bound for ".custom-tab-button" invoke at a
\* click on a rendered button, from handler i on: each filters the buttons of
\* its props again and takes the one at the button's data-cb-index.
RECURSIVE customButtonClicked(_, _)
customButtonClicked(button, i) ==
    IF i > Len(page.custom) THEN <<>>
    ELSE LET btnConfig == buttonAt(applicableButtons(page.custom[i].props, button.tab),
                                   button.cbIndex)
         IN (IF btnConfig # <<>>
             THEN << [hook |-> "callback", label |-> btnConfig[1].label, tab |-> button.tab] >>
             ELSE <<>>)
            \o customButtonClicked(button, i + 1)

\* A click on a custom button of the active tab's pane: the button is
\* disabled for a second and the handlers run.
ClickCustomTabButton ==
    \E index \in DOMAIN (IF activeTab \in DOMAIN page.rendered
                          THEN page.rendered[activeTab] ELSE <<>>) :
        LET button == page.rendered[activeTab][index] IN
        /\ cur_frm = "form"
        /\ [tab |-> button.tab, cbIndex |-> button.cbIndex] \notin page.disabled
        /\ page' = [page EXCEPT !.disabled =
                        disableButton(@, [tab |-> button.tab, cbIndex |-> button.cbIndex])]
        /\ UNCHANGED <<interception, observer, form>>
        /\ op' = [name |-> "clickCustom", tab |-> button.tab, cbIndex |-> button.cbIndex,
                  label |-> button.label]
        /\ callbacks' = customButtonClicked(button, 1)
        /\ ret' = JsUndefined
        /\ threw' = FALSE
        /\ effects' = {}
        /\ UNCHANGED <<formVars, reqd, dirty, btnVars>>

\* The value of a field of the document changes, the page staying as it is.
FieldValueChanges ==
    \E field \in fields_dict :
        /\ cur_frm = "form"
        /\ doc' = [doc EXCEPT ![field] = ~@]
        /\ op' = [name |-> "fieldValueChanges", field |-> field]
        /\ ret' = JsUndefined
        /\ threw' = FALSE
        /\ effects' = {}
        /\ callbacks' = <<>>
        /\ UNCHANGED <<uiVars, frappe, cur_frm, fields, activeTab, reqd, dirty, btnVars>>

\* The workflow action an interceptor is registered for.
WorkflowActions == {"Approve"}

\* toCamelCase on the names of WorkflowActions
toCamelCase(input) ==
    CASE input = "Approve" -> "approve"

\* The handler an interceptor registers, with the options its closure keeps.
Interceptor(kind, action, updateField, setValue, dialogFields) ==
    [kind |-> kind, action |-> action, updateField |-> updateField,
     setValue |-> setValue, fields |-> dialogFields]

\* frappe.ui.form.on(cur_frm.doc.doctype, { before_workflow_action }): the
\* handler is registered for the doctype of the current form.
forDoctype(interceptor) == SetKey(interceptor, "doctype", form.doctype)

\* The registration of an interceptor whatever its flag.
RegistersInterceptorAgain(interceptor) ==
    LET flag == [kind |-> interceptor.kind, action |-> toCamelCase(interceptor.action)] IN
    IF cur_frm # "form"
    THEN /\ threw' = TRUE
         /\ effects' = {"flag"}
         /\ frappe' = [frappe EXCEPT !.flags = @ \cup {flag}]
    ELSE /\ threw' = FALSE
         /\ effects' = {"flag", "on"}
         /\ frappe' = [frappe EXCEPT !.flags = @ \cup {flag},
                                      !.on = Append(@, forDoctype(interceptor))]

\* The registration of an interceptor for a workflow action: the flag is set
\* on frappe, then cur_frm.doc.doctype is read for frappe.ui.form.on, which
\* throws a TypeError without a form document.
RegistersInterceptor(interceptor) ==
    LET flag == [kind |-> interceptor.kind, action |-> toCamelCase(interceptor.action)] IN
    IF flag \in frappe.flags
    THEN /\ threw' = FALSE
         /\ effects' = {}
         /\ UNCHANGED frappe
    ELSE IF cur_frm # "form"
    THEN /\ threw' = TRUE
         /\ effects' = {"flag"}
         /\ frappe' = [frappe EXCEPT !.flags = @ \cup {flag}]
    ELSE /\ threw' = FALSE
         /\ effects' = {"flag", "on"}
         /\ frappe' = [frappe EXCEPT !.flags = @ \cup {flag},
                                      !.on = Append(@, forDoctype(interceptor))]

\* A call of Utils.action.<kind> without an action.
ReturnsUnregistered ==
    /\ threw' = FALSE
    /\ effects' = {}
    /\ UNCHANGED frappe

\* props.updateField of action.confirm: not given, given without a value, or
\* given with a field and a value.
UpdateFields == {"none", "noValue", "given"}

\* Utils.action.confirm({ action, updateField })
ActionConfirm ==
    \E action \in WorkflowActions \cup {Undefined}, updateField \in UpdateFields :
        /\ op' = [name |-> "action.confirm", action |-> action, updateField |-> updateField]
        /\ IF action = Undefined THEN ReturnsUnregistered
           ELSE RegistersInterceptor(Interceptor("Confirm", action, updateField, FALSE, {}))
        /\ ret' = JsUndefined
        /\ callbacks' = <<>>
        /\ UNCHANGED <<uiVars, cur_frm, fields, doc, activeTab, reqd, dirty, btnVars>>

\* Utils.action.composeEmail({ action, setValue }), setValue telling whether
\* props.setValue is an object with at least one key.
ActionComposeEmail ==
    \E action \in WorkflowActions \cup {Undefined}, setValue \in BOOLEAN :
        /\ op' = [name |-> "action.composeEmail", action |-> action, setValue |-> setValue]
        /\ IF action = Undefined THEN ReturnsUnregistered
           ELSE RegistersInterceptor(Interceptor("ComposeIntercept", action, "none", setValue, {}))
        /\ ret' = JsUndefined
        /\ callbacks' = <<>>
        /\ UNCHANGED <<uiVars, cur_frm, fields, doc, activeTab, reqd, dirty, btnVars>>

\* props.fields of action.editFields, as the set of its fieldnames: none, a
\* field of the form, a field no form has, or both.
EditedFields == { {}, {FieldNames[1]}, {FieldNames[8]}, {FieldNames[1], FieldNames[8]} }

\* Utils.action.editFields({ action, fields })
ActionEditFields ==
    \E action \in WorkflowActions \cup {Undefined}, dialogFields \in EditedFields :
        /\ op' = [name |-> "action.editFields", action |-> action, fields |-> dialogFields]
        /\ IF action = Undefined \/ dialogFields = {} THEN ReturnsUnregistered
           ELSE RegistersInterceptor(Interceptor("EditFieldsIntercept", action, "none", FALSE, dialogFields))
        /\ ret' = JsUndefined
        /\ callbacks' = <<>>
        /\ UNCHANGED <<uiVars, cur_frm, fields, doc, activeTab, reqd, dirty, btnVars>>

\* ------------------------------------------- a workflow action is triggered
\* The workflow actions a user can choose: the intercepted one and another.
TriggeredActions == WorkflowActions \cup {"Reject"}

\* What a step of a trigger leaves alone: the form, and the record of the
\* last call of Utils (the steps of a trigger are recorded in its log).
triggerFrame == <<cur_frm, fields, doc, activeTab, reqd, dirty, btnVars, frappe, observer, form,
                  op, ret, threw, effects, callbacks>>

\* The running handler's promise is resolved: the handler returns, and the
\* next handler of before_workflow_action can run.
resolve(event) ==
    [interception EXCEPT !.pending = Tail(@), !.current = NoInterceptor,
                         !.waiting = "nothing", !.log = Append(@, event)]

\* The running handler's promise is rejected: the handler throws error, and
\* the trigger of before_workflow_action fails.
reject(event, error) ==
    [interception EXCEPT !.current = NoInterceptor, !.waiting = "nothing",
                         !.log = Append(@, event),
                         !.outcome = "failed", !.error = error]

\* The running handler waits for the user or for the server.
waitsFor(what, event) ==
    [interception EXCEPT !.waiting = what, !.log = Append(@, event)]

\* The handlers that frappe.ui.form.on holds for a doctype, in the order of
\* their registration.
handlersOf(doctype) == SelectSeq(frappe.on, LAMBDA h : h.doctype = doctype)

\* The user chooses a workflow action of the form: Frappe freezes the page,
\* sets cur_frm.selected_workflow_action and triggers before_workflow_action,
\* which runs the handlers registered for the doctype one after the other.
TriggerWorkflowAction ==
    \E action \in TriggeredActions :
        /\ cur_frm = "form"
        /\ interception.outcome # "running"
        /\ interception.dialog = "none"
        /\ interception' = [NoInterception EXCEPT !.selected = action,
                                                  !.handlers = handlersOf(form.doctype),
                                                  !.pending = handlersOf(form.doctype),
                                                  !.outcome = "running"]
        /\ page' = [page EXCEPT !.frozen = TRUE]
        /\ UNCHANGED triggerFrame

\* Is the handler that waits of the given kind, waiting for the given thing.
Waits(kind, what) ==
    /\ interception.outcome = "running"
    /\ interception.current.kind = kind
    /\ interception.waiting = what

\* The next handler of before_workflow_action starts.
HandlerStarts(kind) ==
    /\ interception.outcome = "running"
    /\ interception.waiting = "nothing"
    /\ interception.pending # <<>>
    /\ Head(interception.pending).kind = kind

\* The handler returns at once for another action than its own.
passesThrough == [interception EXCEPT !.pending = Tail(@)]

\* The handler of action.confirm starts: for its action it unfreezes the page
\* and opens frappe.confirm.
ConfirmHandler ==
    /\ HandlerStarts("Confirm")
    /\ LET h == Head(interception.pending) IN
       IF interception.selected # h.action
       THEN /\ interception' = passesThrough
            /\ UNCHANGED page
       ELSE /\ interception' = [waitsFor("confirm", "confirm dialog") EXCEPT !.current = h]
            /\ page' = [page EXCEPT !.frozen = FALSE]
    /\ UNCHANGED triggerFrame

\* The user confirms: with a field and a value in updateField the handler
\* calls frappe.db.set_value, otherwise it resolves.
ConfirmYesResolvesAtOnce ==
    /\ Waits("Confirm", "confirm")
    /\ interception' = resolve("confirmed")
    /\ UNCHANGED triggerFrame
    /\ UNCHANGED page

ConfirmYes ==
    /\ Waits("Confirm", "confirm")
    /\ interception' = (IF interception.current.updateField = "given"
                        THEN waitsFor("set_value", "confirmed")
                        ELSE resolve("confirmed"))
    /\ UNCHANGED triggerFrame
    /\ UNCHANGED page

\* The user answers No or closes the dialog: the promise is rejected, and the
\* handler throws 'Workflow action cancelled.'.
ConfirmNo ==
    /\ Waits("Confirm", "confirm")
    /\ interception' = reject("declined", "Workflow action cancelled.")
    /\ UNCHANGED triggerFrame
    /\ UNCHANGED page

\* frappe.db.set_value of action.confirm succeeds.
ConfirmUpdateSucceeds ==
    /\ Waits("Confirm", "set_value")
    /\ interception' = resolve("set_value succeeded")
    /\ UNCHANGED triggerFrame
    /\ UNCHANGED page

\* frappe.db.set_value of action.confirm fails.
ConfirmUpdateFails ==
    /\ Waits("Confirm", "set_value")
    /\ interception' = reject("set_value failed", "Workflow action cancelled.")
    /\ UNCHANGED triggerFrame
    /\ UNCHANGED page

\* Every handler has returned: Frappe applies the workflow action.
WorkflowActionProceeds ==
    /\ interception.outcome = "running"
    /\ interception.waiting = "nothing"
    /\ interception.pending = <<>>
    /\ interception' = [interception EXCEPT !.outcome = "proceeded", !.log = Append(@, "proceeded")]
    /\ UNCHANGED triggerFrame
    /\ UNCHANGED page

\* The handler of action.composeEmail starts: for its action it unfreezes the
\* page and opens a WorkflowCommunicationComposer, whose action_triggered is
\* false.
ComposeHandler ==
    /\ HandlerStarts("ComposeIntercept")
    /\ LET h == Head(interception.pending) IN
       IF interception.selected # h.action
       THEN /\ interception' = passesThrough
            /\ UNCHANGED page
       ELSE /\ interception' = [waitsFor("composer", "composer") EXCEPT
                                    !.current = h, !.composer = "open"]
            /\ page' = [page EXCEPT !.frozen = FALSE]
    /\ UNCHANGED triggerFrame

\* The user clicks Send: send_action sets action_triggered and calls
\* on_send_click, which resolves the promise the handler awaits; the handler
\* then calls frappe.client.set_value when setValue has a key, and returns
\* otherwise.
ComposerSendWithoutWriting ==
    /\ Waits("ComposeIntercept", "composer")
    /\ interception' = [resolve("send") EXCEPT !.composer = "sent"]
    /\ UNCHANGED triggerFrame
    /\ UNCHANGED page

ComposerSend ==
    /\ Waits("ComposeIntercept", "composer")
    /\ interception' = [(IF interception.current.setValue
                         THEN waitsFor("call", "send")
                         ELSE resolve("send")) EXCEPT !.composer = "sent"]
    /\ UNCHANGED triggerFrame
    /\ UNCHANGED page

\* The composer's dialog hides (closed by the user, or by Frappe once the
\* email is sent): dialog.onhide rejects unless action_triggered is set.
ComposerHides ==
    /\ interception.composer \in {"open", "sent"}
    /\ interception' =
         [(IF interception.composer = "open" /\ Waits("ComposeIntercept", "composer")
           THEN reject("composer closed", "Workflow action cancelled: Email composer was closed.")
           ELSE interception) EXCEPT !.composer = "closed"]
    /\ UNCHANGED triggerFrame
    /\ UNCHANGED page

\* frappe.call of action.composeEmail returns: the handler returns.
ComposeUpdateSucceeds ==
    /\ Waits("ComposeIntercept", "call")
    /\ interception' = resolve("written")
    /\ UNCHANGED triggerFrame
    /\ UNCHANGED page

\* frappe.call of action.composeEmail fails: the handler rethrows the error.
ComposeUpdateFails ==
    /\ Waits("ComposeIntercept", "call")
    /\ interception' = reject("write failed", "frappe.call failed")
    /\ UNCHANGED triggerFrame
    /\ UNCHANGED page

\* fields.map(...).filter(Boolean) of action.editFields: the configured
\* fields that cur_frm.fields_dict has.
dialogFieldsOfAll(configured) == configured

dialogFieldsOf(configured) == { fieldname \in configured : fieldname \in fields_dict }

\* The handler of action.editFields starts: for its action it unfreezes the
\* page, rejects when no configured field is in the form, and shows the dialog
\* otherwise.
EditFieldsHandler ==
    /\ HandlerStarts("EditFieldsIntercept")
    /\ LET h == Head(interception.pending) IN
       IF interception.selected # h.action
       THEN /\ interception' = passesThrough
            /\ UNCHANGED page
       ELSE /\ interception' =
                 IF dialogFieldsOf(h.fields) = {}
                 THEN [reject("no valid field", "No valid fields to display in dialog.")
                          EXCEPT !.current = NoInterceptor]
                 ELSE [waitsFor("dialog", "edit dialog") EXCEPT !.current = h, !.dialog = "open"]
            /\ page' = [page EXCEPT !.frozen = FALSE]
    /\ UNCHANGED triggerFrame

\* Is the promise of the handler of action.editFields not settled yet.
EditPromisePending ==
    interception.outcome = "running" /\ interception.current.kind = "EditFieldsIntercept"

\* resolve() and reject(error) of the handler of action.editFields: they do
\* nothing once the promise is settled.
editResolve(event) == IF EditPromisePending THEN resolve(event) ELSE interception

editReject(event, error) == IF EditPromisePending THEN reject(event, error) ELSE interception

\* The user submits the dialog: primary_action calls frappe.client.set_value
\* with the values, the dialog staying open.
EditSubmit ==
    /\ interception.dialog = "open"
    /\ interception' = [(IF EditPromisePending THEN waitsFor("set_value", "submitted")
                         ELSE interception) EXCEPT !.dialog = "updating"]
    /\ UNCHANGED triggerFrame
    /\ UNCHANGED page

\* Is a frappe.call of primary_action in flight.
EditUpdating == interception.dialog \in {"updating", "hidden updating"}

\* frappe.call of primary_action returns: the values are written,
\* actionCompleted is set, the dialog is hidden and resolve() called.
EditUpdateSucceeds ==
    /\ EditUpdating
    /\ interception' = [editResolve("updated") EXCEPT !.dialog = "none", !.written = TRUE]
    /\ UNCHANGED triggerFrame
    /\ UNCHANGED page

\* frappe.call of primary_action fails: the error is shown and reject(error)
\* called; the dialog is not hidden.
EditUpdateFails ==
    /\ EditUpdating
    /\ interception' = [editReject("update failed", "frappe.call failed")
                           EXCEPT !.dialog = IF @ = "updating" THEN "open" ELSE "none"]
    /\ UNCHANGED triggerFrame
    /\ UNCHANGED page

\* Is the dialog of action.editFields open, submitted or not.
EditDialogOpen == interception.dialog \in {"open", "updating"}

\* The user clicks Cancel: secondary_action hides the dialog and rejects; a
\* frappe.call in flight goes on.
EditCancel ==
    /\ EditDialogOpen
    /\ interception' = [editReject("cancel button", "Workflow action cancelled.")
                           EXCEPT !.dialog = IF @ = "updating" THEN "hidden updating" ELSE "none"]
    /\ UNCHANGED triggerFrame
    /\ UNCHANGED page

\* The user closes the dialog with the X button or ESC: dialog.onhide rejects,
\* actionCompleted being false; a frappe.call in flight goes on.
EditClose ==
    /\ EditDialogOpen
    /\ interception' = [editReject("closed", "Workflow action cancelled.")
                           EXCEPT !.dialog = IF @ = "updating" THEN "hidden updating" ELSE "none"]
    /\ UNCHANGED triggerFrame
    /\ UNCHANGED page

\* ----------------------------------------------------------- Utils.workflow
MaxTransitions == 3  \* longest transition table of the workflow specification
StackLimit == 8      \* deepest recursion before the engine throws a RangeError

\* The rows of a workflow's transition table, as the Workflow Transition
\* doctype keeps them: state, action and next_state are set.
WorkflowStates == {"Draft", "Review"}
TransitionActions == {"Submit", "Return"}
TransitionRows ==
    [state : WorkflowStates, action : TransitionActions, next_state : WorkflowStates,
     allowed : {"Manager"}]

RECURSIVE TablesOfLength(_)
TablesOfLength(n) ==
    IF n = 0 THEN {<<>>}
    ELSE { Append(t, row) : t \in TablesOfLength(n - 1), row \in TransitionRows }

TransitionTables == UNION { TablesOfLength(n) : n \in 0..MaxTransitions }

\* formatAllowedRoles(allowed) for the name of one role
formatAllowedRoles(allowed) == <<allowed>>

\* The object the workflow helpers return for a row of the table.
transitionObject(transition) ==
    [action |-> transition.action, next_state |-> transition.next_state,
     state |-> transition.state, allowed_roles |-> formatAllowedRoles(transition.allowed),
     condition |-> ""]

\* !cur_frm?.doc?.doctype
HasDoctype == cur_frm = "form"

\* What a workflow helper does: it returns the array, after a console.warn
\* when warns.
WorkflowReturns(call, value, warns) ==
    /\ op' = call
    /\ ret' = JsArray(value)
    /\ threw' = FALSE
    /\ effects' = IF warns THEN {"console.warn"} ELSE {}
    /\ callbacks' = <<>>
    /\ UNCHANGED <<uiVars, formVars, reqd, dirty, btnVars>>

\* transitions.filter(...) / transitions.map(...), from position i on
RECURSIVE filterMap(_, _, _)
filterMap(transitions, keep(_), i) ==
    IF i > Len(transitions) THEN <<>>
    ELSE (IF keep(transitions[i]) THEN <<transitionObject(transitions[i])>> ELSE <<>>)
         \o filterMap(transitions, keep, i + 1)

\* Utils.workflow.getTransitions()
WorkflowGetTransitions ==
    LET call == [name |-> "workflow.getTransitions"]
        ofState(transition) == transition.state = form.workflow_state IN
    IF ~HasDoctype \/ form.workflow_state = ""
    THEN WorkflowReturns(call, <<>>, TRUE)
    ELSE WorkflowReturns(call, filterMap(form.transitions, ofState, 1), FALSE)

\* Utils.workflow.getAllTransitions()
WorkflowGetAllTransitions ==
    LET call == [name |-> "workflow.getAllTransitions"]
        all(transition) == TRUE IN
    IF ~HasDoctype
    THEN WorkflowReturns(call, <<>>, TRUE)
    ELSE WorkflowReturns(call, filterMap(form.transitions, all, 1), FALSE)

\* transitionMap[state]: the rows of the state, in the order of the table
RECURSIVE transitionMap(_, _, _)
transitionMap(transitions, state, i) ==
    IF i > Len(transitions) THEN <<>>
    ELSE (IF transitions[i].state = state THEN <<transitions[i]>> ELSE <<>>)
         \o transitionMap(transitions, state, i + 1)

\* futureTransitions.some(t => t.action === transition.action &&
\*                             t.state === transition.state)
alreadyCollectedNever(futureTransitions, transition) == FALSE

alreadyCollected(futureTransitions, transition) ==
    \E k \in DOMAIN futureTransitions :
        /\ futureTransitions[k].action = transition.action
        /\ futureTransitions[k].state = transition.state

\* collectTransitions(state) at a depth of the call stack, and the forEach
\* over transitionMap[state] from position i on: the futureTransitions after
\* it, the deepest call made, and whether the stack overflowed.
RECURSIVE collectForEach(_, _, _, _, _)
collectForEach(transitions, state, i, acc, depth) ==
    LET rows == transitionMap(transitions, state, 1) IN
    IF acc.overflow \/ i > Len(rows) THEN acc
    ELSE IF alreadyCollected(acc.futureTransitions, rows[i])
    THEN collectForEach(transitions, state, i + 1, acc, depth)
    ELSE LET pushed == [acc EXCEPT !.futureTransitions = Append(@, transitionObject(rows[i]))]
             called == IF depth + 1 > StackLimit
                       THEN [pushed EXCEPT !.overflow = TRUE]
                       ELSE collectForEach(transitions, rows[i].next_state, 1,
                                [pushed EXCEPT !.deepest = IF depth + 1 > @ THEN depth + 1 ELSE @],
                                depth + 1)
         IN collectForEach(transitions, state, i + 1, called, depth)

collectTransitions(transitions, state) ==
    collectForEach(transitions, state, 1,
                   [futureTransitions |-> <<>>, deepest |-> 1, overflow |-> FALSE], 1)

\* props.state of getFutureTransitions
StartStates == {Undefined} \cup WorkflowStates

\* Utils.workflow.getFutureTransitions({ state }): a RangeError of the
\* recursion is caught and makes the call return [].
WorkflowGetFutureTransitions ==
    \E state \in StartStates :
        LET call == [name |-> "workflow.getFutureTransitions", state |-> state]
            currentState == IF state # Undefined THEN state ELSE form.workflow_state
        IN
        IF ~HasDoctype \/ currentState = "" \/ form.transitions = <<>>
        THEN WorkflowReturns(call, <<>>, TRUE)
        ELSE LET collected == collectTransitions(form.transitions, currentState) IN
             IF collected.overflow
             THEN WorkflowReturns(call, <<>>, TRUE)
             ELSE WorkflowReturns(call, collected.futureTransitions, FALSE)

\* ----------------------------------------------------------- Utils.observer
MaxWatchers == 3     \* most watchers created in the observer specification

\* A field of observer.watch and observer.unwatch: none given, a name that no
\* form has, or a field of the observed form.
WatchedNames == {"customer", "customer_name", "rate"}
ObservedFields == { Undefined, FieldNames[8] } \cup WatchedNames

\* The parts of a fieldname between its underscores.
split(fieldname) ==
    CASE fieldname = "customer_name" -> <<"customer", "name">>
      [] OTHER -> <<fieldname>>

\* generateRandomString(length): what Math.random().toString(36) yields, cut
\* to the length; any string of the length can come out.
RandomStrings == {"k3x9qa", "p07dzm"}
generateRandomString(length) == IF length = 6 THEN RandomStrings ELSE {}

\* `__observer_${field}_${ID}`, as its parts after "__observer_"
flagName(field, ID) == split(field) \o <<ID>>

\* key.startsWith(`__observer_${field}_`)
startsWith(key, field) ==
    /\ Len(key) > Len(split(field))
    /\ SubSeq(key, 1, Len(split(field))) = split(field)

\* frm[flagName], undefined when the form has no such property
FlagOf(flag) == IF flag \in DOMAIN observer.flags THEN observer.flags[flag] ELSE FALSE

\* What a call of the observer leaves alone.
observerFrame == <<page, interception, form, formVars, reqd, dirty, btnVars>>

\* Utils.observer.watch({ fields: [field], callback }): without a form null is
\* returned; an object without fields_dict makes frm.fields_dict[field] throw
\* a TypeError; a form without the field gets no watcher; otherwise a handler
\* is registered for the field and its flag set on the form.
ObserverWatch ==
    \E field \in ObservedFields, debug \in DebugFlags :
        /\ op' = [name |-> "observer.watch", field |-> field]
        /\ threw' = (cur_frm = "empty" /\ field # Undefined)
        /\ effects' = IF cur_frm = "empty" /\ field # Undefined THEN {}
                      ELSE IF cur_frm = "form" /\ field # Undefined /\ field \notin fields_dict
                      THEN {"console.warn"}
                      ELSE debugLog(debug)
        /\ callbacks' = <<>>
        /\ IF cur_frm = "form" /\ field # Undefined /\ field \in fields_dict
           THEN \E ID \in generateRandomString(6) :
                  /\ Len(observer.handlers) < MaxWatchers
                  /\ observer' = [flags |-> SetKey(observer.flags, flagName(field, ID), TRUE),
                                  handlers |-> Append(observer.handlers,
                                      [field |-> field, id |-> ID, flagName |-> flagName(field, ID)])]
                  /\ ret' = [watchers |-> {[field |-> field, id |-> ID]}]
           ELSE /\ ret' = IF cur_frm = "form" /\ field # Undefined
                          THEN [watchers |-> {}] ELSE [type |-> Null]
                /\ UNCHANGED observer
        /\ UNCHANGED observerFrame

\* The unwatch() method of the watcher that the i-th watch call returned.
WatcherUnwatch ==
    \E i \in DOMAIN observer.handlers :
        /\ observer' = [observer EXCEPT !.flags = SetKey(@, observer.handlers[i].flagName, FALSE)]
        /\ op' = [name |-> "watcher.unwatch", watcher |-> i]
        /\ ret' = JsUndefined
        /\ threw' = FALSE
        /\ effects' = {}
        /\ callbacks' = <<>>
        /\ UNCHANGED observerFrame

\* The flags after one step of the loop of observer.unwatch, for a field of
\* the form: the flag of the id when an id is given and the form has the
\* flag, every flag whose name starts with the field's prefix otherwise.
unwatchField(flags, field, id) ==
    IF id # Undefined
    THEN IF flagName(field, id) \in DOMAIN flags
         THEN SetKey(flags, flagName(field, id), FALSE)
         ELSE flags
    ELSE [key \in DOMAIN flags |-> IF startsWith(key, field) THEN FALSE ELSE flags[key]]

\* for (let field of fields) of observer.unwatch, from position i on
RECURSIVE unwatchFields(_, _, _, _)
unwatchFields(flags, listed, i, id) ==
    IF i > Len(listed) THEN flags
    ELSE unwatchFields(IF listed[i] \in fields_dict
                       THEN unwatchField(flags, listed[i], id) ELSE flags,
                       listed, i + 1, id)

\* The lists given as the fields argument of observer.unwatch: one or two
\* names.
UnwatchedLists ==
    { <<f>> : f \in ObservedFields \ {Undefined} } \cup { <<"customer", "rate">> }

\* Utils.observer.unwatch({ fields, id, debug }), given telling whether fields
\* is given: a listed name that the form lacks is warned of whatever debug and
\* the environment are, every other message is written only with debug in a
\* development environment.
ObserverUnwatch ==
    \E given \in BOOLEAN, listed \in UnwatchedLists \cup {<<>>},
       id \in {Undefined} \cup RandomStrings, debug \in DebugFlags :
        /\ given <=> listed # <<>>
        /\ op' = [name |-> "observer.unwatch", given |-> given, fields |-> listed, id |-> id]
        /\ threw' = (cur_frm = "empty" /\ given)
        /\ ret' = JsUndefined
        /\ effects' = IF cur_frm = "empty" /\ given THEN {}
                      ELSE IF cur_frm = "form" /\ given
                      THEN (IF Range(listed) \ fields_dict # {} THEN {"console.warn"} ELSE {})
                           \cup (IF Range(listed) \cap fields_dict # {}
                                 THEN debugLog(debug) ELSE {})
                      ELSE debugLog(debug)
        /\ callbacks' = <<>>
        /\ observer' = IF cur_frm = "form" /\ given
                       THEN [observer EXCEPT !.flags = unwatchFields(@, listed, 1, id)]
                       ELSE observer
        /\ UNCHANGED observerFrame

\* The handlers that a change of the field runs, in the order of their
\* registration, from position i on: each invokes its callback when its flag
\* on the form is truthy.
RECURSIVE invoked(_, _)
invoked(field, i) ==
    IF i > Len(observer.handlers) THEN <<>>
    ELSE (IF observer.handlers[i].field = field /\ FlagOf(observer.handlers[i].flagName)
          THEN << [watcher |-> i, field |-> field] >> ELSE <<>>)
         \o invoked(field, i + 1)

\* The value of a field of the form changes: Frappe runs the handlers that
\* frappe.ui.form.on has for the field.
FieldChanges ==
    \E field \in fields_dict :
        /\ cur_frm = "form"
        /\ op' = [name |-> "fieldChanges", field |-> field]
        /\ ret' = JsUndefined
        /\ threw' = FALSE
        /\ effects' = {}
        /\ callbacks' = invoked(field, 1)
        /\ UNCHANGED <<observerFrame, observer>>

\* The doctypes of the forms a user opens.
Doctypes == {"Task", "Issue"}

\* The user opens a form of another doctype: cur_frm is that form.
FormSwitches ==
    \E doctype \in Doctypes \ {form.doctype} :
        /\ cur_frm = "form"
        /\ form' = [form EXCEPT !.doctype = doctype]
        /\ op' = [name |-> "formSwitches", doctype |-> doctype]
        /\ ret' = JsUndefined
        /\ threw' = FALSE
        /\ effects' = {}
        /\ callbacks' = <<>>
        /\ UNCHANGED <<page, interception, observer, formVars, reqd, dirty, btnVars>>

\* ------------------------------------------------- custom tab buttons
\* The button configurations of props.buttons on a tab: one shown always, one
\* shown in the workflow state Review, one shown while the second field of
\* the form has a value.
ButtonConfigs(tab) ==
    { [tab |-> tab, label |-> "Save"],
      [tab |-> tab, label |-> "Approve", workflowStates |-> {"Review"}],
      [tab |-> tab, label |-> "Send", conditional |-> FieldNames[2]] }

\* props.buttons: one or two configurations for the first tab.
CustomButtonLists ==
    { <<a>> : a \in ButtonConfigs(FieldNames[1]) }
    \cup { pair \in ButtonConfigs(FieldNames[1]) \X ButtonConfigs(FieldNames[1]) :
               pair[1] # pair[2] }

CustomTabButtonProps ==
    { [saveTabs |-> {}, saveConfig |-> [given |-> FALSE], beforeNavigation |-> FALSE,
       onNext |-> FALSE, onPrev |-> FALSE, afterNavigation |-> TRUE, buttons |-> buttons] :
        buttons \in CustomButtonLists }

\* Utils.addTabButtons({ buttons })
AddCustomTabButtons == \E props \in CustomTabButtonProps : AddTabButtonsWith(props)

\* The workflow state of the document changes, the page staying as it is.
WorkflowStateChanges ==
    \E state \in WorkflowStates \ {form.workflow_state} :
        /\ cur_frm = "form"
        /\ form' = [form EXCEPT !.workflow_state = state]
        /\ op' = [name |-> "workflowStateChanges", state |-> state]
        /\ ret' = JsUndefined
        /\ threw' = FALSE
        /\ effects' = {}
        /\ callbacks' = <<>>
        /\ UNCHANGED <<page, interception, observer, formVars, reqd, dirty, btnVars>>

\* ----------------------------------------------------------- specifications
NoOp == [name |-> "none"]

InitCommon ==
    /\ reqd = {}
    /\ dirty = FALSE
    /\ op = NoOp
    /\ ret = JsUndefined
    /\ threw = FALSE
    /\ effects = {}
    /\ callbacks = <<>>
    /\ handler = NoHandler
    /\ held = NoCont
    /\ saving = NoSave
    /\ frappe = NoFrappe
    /\ interception = NoInterception
    /\ observer = NoObserver
    /\ form = PlainForm
    /\ page = NoPage

\* hideFields on a form of two fields, each shown or hidden, in each workflow
\* state or in none.
HideableField(i, hidden) ==
    [fieldname |-> FieldNames[i], fieldtype |-> "Data", hidden |-> hidden, depends_on |-> ""]

InitHide ==
    /\ cur_frm = "form"
    /\ \E h1, h2 \in BOOLEAN : fields = << HideableField(1, h1), HideableField(2, h2) >>
    /\ doc = [n \in DocNames |-> FALSE]
    /\ activeTab = NoTab
    /\ reqd = {}
    /\ dirty = FALSE
    /\ op = NoOp
    /\ ret = JsUndefined
    /\ threw = FALSE
    /\ effects = {}
    /\ callbacks = <<>>
    /\ handler = NoHandler
    /\ held = NoCont
    /\ saving = NoSave
    /\ frappe = NoFrappe
    /\ page = NoPage
    /\ interception = NoInterception
    /\ observer = NoObserver
    /\ form \in [doctype : {"Task"}, workflow_state : WorkflowStates \cup {""},
                 transitions : {<<>>}]

NextHide == HideFields

SpecHide == InitHide /\ [][NextHide]_vars

\* The tab helpers on every form of at most MaxFields fields.
InitTabs ==
    /\ cur_frm = "form"
    /\ fields \in MetaListsUpTo(FieldDefs, MaxFields)
    /\ doc = [n \in DocNames |-> FALSE]
    /\ activeTab = NoTab
    /\ InitCommon

NextTabs == GetTabs \/ GetFieldsInTab

SpecTabs == InitTabs /\ [][NextTabs]_vars

\* checkMandatory on every form of at most MaxFields data fields and every
\* document over the names that can be listed.
DataDefs(i) == { f \in OtherDefs(i) : f.fieldtype = "Data" }

InitMandatory ==
    /\ cur_frm = "form"
    /\ fields \in MetaListsUpTo(DataDefs, MaxFields)
    /\ doc \in [DocNames -> BOOLEAN]
    /\ activeTab = NoTab
    /\ InitCommon

NextMandatory == CheckMandatory

SpecMandatory == InitMandatory /\ [][NextMandatory]_vars

\* Tab navigation on every tabbed form of at most MaxNavFields fields: a
\* leading Tab Break, then shown or hidden Tab Breaks, Section Breaks and data
\* fields, with any tab or none active.
NavDefs(i) ==
    { f \in FieldDefs(i) : f.depends_on = "" /\ (i = 1 => f.fieldtype = "Tab Break") }

InitNav ==
    /\ cur_frm = "form"
    /\ fields \in MetaListsUpTo(NavDefs, MaxNavFields)
    /\ doc = [n \in DocNames |-> FALSE]
    /\ activeTab \in {NoTab} \cup TabBreakNames
    /\ InitCommon

NextNav ==
    \/ GoToTab
    \/ GoToTabNext
    \/ GoToTabPrevious
    \/ HasNextTab
    \/ HasPreviousTab
    \/ SelectTab

SpecNav == InitNav /\ [][NextNav]_vars

\* goToTab.next called again and again, each call running to its end: a call
\* that can change the page is made sooner or later.
NextRepeated == GoToTabNext

SpecNextRepeated == InitNav /\ [][NextRepeated]_vars /\ WF_vars(GoToTabNext)

\* The tab buttons on three-tab forms, one with its middle tab hidden, after
\* addTabButtons(props) for each props.
TabBreak(i, hidden) ==
    [fieldname |-> FieldNames[i], fieldtype |-> "Tab Break", hidden |-> hidden, depends_on |-> ""]

DataField(i) ==
    [fieldname |-> FieldNames[i], fieldtype |-> "Data", hidden |-> FALSE, depends_on |-> ""]

ButtonForms ==
    { << TabBreak(1, FALSE), DataField(2), TabBreak(3, h), DataField(4),
         TabBreak(5, FALSE), DataField(6) >> : h \in BOOLEAN }

\* The props of the calls whose buttons are clicked: hooks without
\* saveConfig, or saveConfig without hooks other than afterNavigation.
ClickedTabButtonProps ==
    { props \in TabButtonProps :
        \/ ~props.saveConfig.given
        \/ (~props.beforeNavigation /\ ~props.onNext /\ ~props.onPrev) }

InitButtons ==
    /\ cur_frm = "form"
    /\ fields \in ButtonForms
    /\ doc = [n \in DocNames |-> FALSE]
    /\ activeTab = FieldNames[1]
    /\ reqd = {}
    /\ dirty = FALSE
    /\ op = NoOp
    /\ ret = JsUndefined
    /\ threw = FALSE
    /\ effects = {}
    /\ callbacks = <<>>
    /\ \E props \in ClickedTabButtonProps :
          handler = [bound |-> TRUE, props |-> props, tabs |-> getTabs(TRUE).tabs]
    /\ held = NoCont
    /\ saving = NoSave
    /\ frappe = NoFrappe
    /\ interception = NoInterception
    /\ observer = NoObserver
    /\ form = PlainForm
    /\ page = [containers |-> [pane \in TabPanes |-> << [tab |-> pane] >>],
               navigation |-> <<handler>>,
               custom |-> << [props |-> handler.props] >>,
               rendered |-> [pane \in TabPanes |-> <<>>],
               disabled |-> {}, slowValidate |-> FALSE, frozen |-> FALSE]

NextButtons ==
    \/ ClickTabNavigation
    \/ TimerFires
    \/ CallbackContinues
    \/ CallbackGivesUp
    \/ SaveCompletes
    \/ SaveFails
    \/ UserEdits
    \/ SelectTab

SpecButtons == InitButtons /\ [][NextButtons]_vars

\* The save-and-navigate calls on every tabbed form of at most MaxFields
\* fields, clean or edited, with any tab or none active.
InitSave ==
    /\ cur_frm = "form"
    /\ fields \in MetaListsUpTo(NavDefs, MaxFields)
    /\ doc = [n \in DocNames |-> FALSE]
    /\ activeTab \in {NoTab} \cup TabBreakNames
    /\ InitCommon

NextSave ==
    \/ GoToTabSave
    \/ GoToTabNextSave
    \/ GoToTabPreviousSave
    \/ SaveCompletes
    \/ SaveFails
    \/ UserEdits
    \/ SelectTab

SpecSave == InitSave /\ [][NextSave]_vars

\* Successive addTabButtons calls on the three-tab forms, with clicks on the
\* buttons they render in between.
InitRefresh ==
    /\ cur_frm = "form"
    /\ fields \in ButtonForms
    /\ doc = [n \in DocNames |-> FALSE]
    /\ activeTab = FieldNames[1]
    /\ InitCommon

NextRefresh ==
    \/ AddTabButtons
    \/ ClickTabNavigation
    \/ TimerFires
    \/ SaveCompletes
    \/ SaveFails
    \/ UserEdits
    \/ SelectTab

SpecRefresh == InitRefresh /\ [][NextRefresh]_vars

\* Clicks on the tab buttons of the three-tab forms whose validate handlers
\* are slow, the props saving on every tab, in both directions or forward.
InitClicks ==
    /\ cur_frm = "form"
    /\ fields \in ButtonForms
    /\ doc = [n \in DocNames |-> FALSE]
    /\ activeTab = FieldNames[1]
    /\ reqd = {}
    /\ dirty = FALSE
    /\ op = NoOp
    /\ ret = JsUndefined
    /\ threw = FALSE
    /\ effects = {}
    /\ callbacks = <<>>
    /\ \E props \in { q \in PlainTabButtonProps : q.saveTabs = {"*"} }, direction \in {Undefined, "forward"} :
          handler = [bound |-> TRUE,
                     props |-> [props EXCEPT !.saveConfig =
                                   IF direction = Undefined THEN [given |-> FALSE]
                                   ELSE [given |-> TRUE, direction |-> direction]],
                     tabs |-> getTabs(TRUE).tabs]
    /\ held = NoCont
    /\ saving = NoSave
    /\ frappe = NoFrappe
    /\ interception = NoInterception
    /\ observer = NoObserver
    /\ form = PlainForm
    /\ page = [containers |-> [pane \in TabPanes |-> << [tab |-> pane] >>],
               navigation |-> <<handler>>,
               custom |-> << [props |-> handler.props] >>,
               rendered |-> [pane \in TabPanes |-> <<>>],
               disabled |-> {}, slowValidate |-> TRUE, frozen |-> FALSE]

NextClicks ==
    \/ ClickTabNavigation
    \/ TimerFires
    \/ SaveFreezes
    \/ SaveCompletes
    \/ SaveFails
    \/ UserEdits
    \/ SelectTab

SpecClicks == InitClicks /\ [][NextClicks]_vars

\* The custom buttons on a form of two tabs, the first active, in each
\* workflow state and with the second field filled or empty.
InitCustom ==
    /\ cur_frm = "form"
    /\ fields = << TabBreak(1, FALSE), DataField(2), TabBreak(3, FALSE), DataField(4) >>
    /\ doc \in { [n \in DocNames |-> n = FieldNames[2] /\ filled] : filled \in BOOLEAN }
    /\ activeTab = FieldNames[1]
    /\ reqd = {}
    /\ dirty = FALSE
    /\ op = NoOp
    /\ ret = JsUndefined
    /\ threw = FALSE
    /\ effects = {}
    /\ callbacks = <<>>
    /\ handler = NoHandler
    /\ held = NoCont
    /\ saving = NoSave
    /\ frappe = NoFrappe
    /\ interception = NoInterception
    /\ observer = NoObserver
    /\ form \in [doctype : {"Task"}, workflow_state : WorkflowStates, transitions : {<<>>}]
    /\ page = NoPage

NextCustom ==
    \/ AddCustomTabButtons
    \/ ClickCustomTabButton
    \/ TimerFires
    \/ FieldValueChanges
    \/ WorkflowStateChanges

SpecCustom == InitCustom /\ [][NextCustom]_vars

\* Every public operation while there is no form (cur_frm is null) or while
\* cur_frm is an object without meta, doc and fields_dict.
InitInvalid ==
    /\ cur_frm \in {"null", "empty"}
    /\ fields = <<>>
    /\ doc = [n \in DocNames |-> FALSE]
    /\ activeTab = NoTab
    /\ InitCommon

NextInvalid ==
    \/ GetTabs
    \/ GetFieldsInTab
    \/ GetFieldsInSection
    \/ GetFieldsInColumn
    \/ CheckMandatory
    \/ ChangeWorkflowState
    \/ MakeReadOnly
    \/ HideFields
    \/ GoToTab
    \/ GoToTabNext
    \/ GoToTabPrevious
    \/ GoToTabSave
    \/ GoToTabNextSave
    \/ GoToTabPreviousSave
    \/ HasNextTab
    \/ HasPreviousTab
    \/ AddTabButtons
    \/ ActionConfirm
    \/ ActionComposeEmail
    \/ ActionEditFields
    \/ WorkflowGetTransitions
    \/ WorkflowGetAllTransitions
    \/ WorkflowGetFutureTransitions
    \/ ObserverWatch
    \/ ObserverUnwatch

SpecInvalid == InitInvalid /\ [][NextInvalid]_vars

\* The interceptors on a form with one field or none: registrations of each
\* kind with each option, made (as on a refresh of the form) while no trigger
\* is running, and triggers of the intercepted and of another workflow action.
InitIntercept ==
    /\ cur_frm = "form"
    /\ fields \in { <<>>, << DataField(1) >> }
    /\ doc = [n \in DocNames |-> FALSE]
    /\ activeTab = NoTab
    /\ InitCommon

\* No trigger runs and no dialog of action.editFields is left open or updating.
Idle == interception.outcome # "running" /\ interception.dialog = "none"

NextIntercept ==
    \/ (Idle /\ ActionConfirm)
    \/ (Idle /\ ActionComposeEmail)
    \/ (Idle /\ ActionEditFields)
    \/ TriggerWorkflowAction
    \/ ConfirmHandler
    \/ ConfirmYes
    \/ ConfirmNo
    \/ ConfirmUpdateSucceeds
    \/ ConfirmUpdateFails
    \/ ComposeHandler
    \/ ComposerSend
    \/ ComposerHides
    \/ ComposeUpdateSucceeds
    \/ ComposeUpdateFails
    \/ EditFieldsHandler
    \/ EditSubmit
    \/ EditUpdateSucceeds
    \/ EditUpdateFails
    \/ EditCancel
    \/ EditClose
    \/ WorkflowActionProceeds

SpecIntercept == InitIntercept /\ [][NextIntercept]_vars

\* The registrations of interceptors while forms of two doctypes, each with
\* one field, are opened in turn, and the triggers that show which handlers
\* run on each.
InitDoctypes ==
    /\ cur_frm = "form"
    /\ fields = << DataField(1) >>
    /\ doc = [n \in DocNames |-> FALSE]
    /\ activeTab = NoTab
    /\ InitCommon

NextDoctypes ==
    \/ (Idle /\ ActionConfirm)
    \/ (Idle /\ ActionComposeEmail)
    \/ (Idle /\ ActionEditFields)
    \/ (Idle /\ FormSwitches)
    \/ TriggerWorkflowAction

SpecDoctypes == InitDoctypes /\ [][NextDoctypes]_vars

\* The observers on a form with the fields customer, customer_name and rate.
ObservedField(fieldname) ==
    [fieldname |-> fieldname, fieldtype |-> "Data", hidden |-> FALSE, depends_on |-> ""]

InitObserver ==
    /\ cur_frm = "form"
    /\ fields = << ObservedField("customer"), ObservedField("customer_name"), ObservedField("rate") >>
    /\ doc = [n \in DocNames |-> FALSE]
    /\ activeTab = NoTab
    /\ InitCommon

NextObserver ==
    \/ ObserverWatch
    \/ ObserverUnwatch
    \/ WatcherUnwatch
    \/ FieldChanges

SpecObserver == InitObserver /\ [][NextObserver]_vars

\* The workflow helpers on a form with each transition table of at most
\* MaxTransitions rows, in each workflow state or in none.
InitWorkflow ==
    /\ cur_frm = "form"
    /\ fields = <<>>
    /\ doc = [n \in DocNames |-> FALSE]
    /\ activeTab = NoTab
    /\ reqd = {}
    /\ dirty = FALSE
    /\ op = NoOp
    /\ ret = JsUndefined
    /\ threw = FALSE
    /\ effects = {}
    /\ callbacks = <<>>
    /\ handler = NoHandler
    /\ held = NoCont
    /\ saving = NoSave
    /\ frappe = NoFrappe
    /\ page = NoPage
    /\ interception = NoInterception
    /\ observer = NoObserver
    /\ form \in [doctype : {"Task"}, workflow_state : WorkflowStates \cup {""},
                 transitions : TransitionTables]

NextWorkflow ==
    \/ WorkflowGetTransitions
    \/ WorkflowGetAllTransitions
    \/ WorkflowGetFutureTransitions

SpecWorkflow == InitWorkflow /\ [][NextWorkflow]_vars

\* The workflow helpers and the observer in each environment: developer_mode
\* unset, 0 or 1, on a development host or another; the form has the field
\* rate and a workflow of one transition, and is in Draft or in no state.
InitConsole ==
    /\ cur_frm = "form"
    /\ fields = << ObservedField("rate") >>
    /\ doc = [n \in DocNames |-> FALSE]
    /\ activeTab = NoTab
    /\ reqd = {}
    /\ dirty = FALSE
    /\ op = NoOp
    /\ ret = JsUndefined
    /\ threw = FALSE
    /\ effects = {}
    /\ callbacks = <<>>
    /\ handler = NoHandler
    /\ held = NoCont
    /\ saving = NoSave
    /\ frappe \in [flags : {{}}, on : {<<>>}, developer_mode : {Undefined, "0", "1"},
                   hostname : {"localhost", "erp.example.com"}]
    /\ page = NoPage
    /\ interception = NoInterception
    /\ observer = NoObserver
    /\ form \in [doctype : {"Task"}, workflow_state : {"", "Draft"},
                 transitions : {<< [state |-> "Draft", action |-> "Submit",
                                     next_state |-> "Review", allowed |-> "Manager"] >>}]

NextConsole ==
    \/ WorkflowGetTransitions
    \/ WorkflowGetAllTransitions
    \/ WorkflowGetFutureTransitions
    \/ ObserverWatch
    \/ ObserverUnwatch

SpecConsole == InitConsole /\ [][NextConsole]_vars

\* ------------------------------------------------------------------- claims
IsTabBreakAt(i) == fields[i].fieldtype = "Tab Break"

\* The positions of the Tab Breaks after position s.
LaterTabBreaks(s) == { j \in (s + 1)..Len(fields) : IsTabBreakAt(j) }

\* The position of the first Tab Break after s, or one past the end of the list.
TabSpanEnd(s) ==
    IF LaterTabBreaks(s) = {} THEN Len(fields) + 1
    ELSE CHOOSE j \in LaterTabBreaks(s) : \A k \in LaterTabBreaks(s) : j <= k

\* C1: for a tab name that names a Tab Break of the metadata list,
\* getFieldsInTab returns, in metadata order, exactly the fieldnames strictly
\* after that Tab Break and strictly before the next Tab Break (or the end of
\* the list), and json maps exactly those fieldnames to their definitions.
C1_GetFieldsInTabIsTabSpan ==
    (op.name = "getFieldsInTab") =>
        \A s \in DOMAIN fields :
            (IsTabBreakAt(s) /\ fields[s].fieldname = op.tab) =>
                LET e == TabSpanEnd(s) IN
                /\ Len(ret.fields) = e - s - 1
                /\ \A k \in 1..(e - s - 1) : ret.fields[k] = fields[s + k].fieldname
                /\ DOMAIN ret.json = { fields[j].fieldname : j \in (s + 1)..(e - 1) }
                /\ \A j \in (s + 1)..(e - 1) : ret.json[fields[j].fieldname] = fields[j]

\* A call on a tab that holds two fields and is closed by a later Tab Break.
C1_Witness ==
    /\ op.name = "getFieldsInTab"
    /\ \E s \in DOMAIN fields :
          /\ IsTabBreakAt(s) /\ fields[s].fieldname = op.tab
          /\ LaterTabBreaks(s) # {}
    /\ Len(ret.fields) = 2

\* The listed fields that are in the form and empty on the document.
EmptyListedInForm(listed) ==
    SelectSeq(listed, LAMBDA f : (\E i \in DOMAIN fields : fields[i].fieldname = f) /\ doc[f] = FALSE)

\* The listed fields that are empty on the document.
EmptyListed(listed) == SelectSeq(listed, LAMBDA f : doc[f] = FALSE)

\* C2 as stated: checkMandatory returns true iff no listed field is empty on
\* the document, and otherwise the empty listed fields in listed order.
C2_TrueIffNoListedFieldEmpty ==
    (op.name = "checkMandatory") =>
        IF EmptyListed(op.fields) = <<>>
        THEN ret = JsTrue
        ELSE ret.type = "array" /\ ret.value = EmptyListed(op.fields)

\* C2 amended: checkMandatory returns true iff no listed field that exists in
\* the form is empty on the document, and otherwise the names of the empty
\* listed fields that exist in the form, in the order they were listed.
C2_TrueIffNoListedFormFieldEmpty ==
    (op.name = "checkMandatory") =>
        IF EmptyListedInForm(op.fields) = <<>>
        THEN ret = JsTrue
        ELSE ret.type = "array" /\ ret.value = EmptyListedInForm(op.fields)

\* A call that lists an empty field of the form after a name the form lacks,
\* and one that lists a filled and an empty field.
C2_Witness ==
    /\ op.name = "checkMandatory"
    /\ Len(op.fields) = 2
    /\ op.fields[1] \notin fields_dict
    /\ doc[op.fields[1]] = FALSE
    /\ op.fields[2] \in fields_dict
    /\ doc[op.fields[2]] = FALSE
    /\ ret.type = "array"
    /\ ret.value = <<op.fields[2]>>

\* Does the Tab Break at position i pass its depends_on, if it has one.
DependsOnPasses(i) == fields[i].depends_on \in {"", "eval:1"}

\* Is the tab at position i empty: followed at once by a Tab Break or by the end.
TabIsEmpty(i) == i = Len(fields) \/ IsTabBreakAt(i + 1)

\* The positions getTabs is to return.
ExpectedTabs(excludeHidden) ==
    { i \in DOMAIN fields :
        /\ IsTabBreakAt(i)
        /\ DependsOnPasses(i)
        /\ excludeHidden => (~fields[i].hidden /\ ~TabIsEmpty(i)) }

\* C5: getTabs({excludeHidden: true}) returns, in metadata order, exactly the
\* Tab Breaks that are not hidden, not empty and whose depends_on, if any, is
\* truthy; with excludeHidden false it returns every Tab Break whose
\* depends_on passes; json has exactly the returned names as keys.
C5_GetTabsReturnsVisibleTabs ==
    (op.name = "getTabs") =>
        LET want == ExpectedTabs(op.excludeHidden) IN
        /\ Range(ret.tabs) = { fields[i].fieldname : i \in want }
        /\ Len(ret.tabs) = Cardinality(want)
        /\ \A a, b \in DOMAIN ret.tabs :
              a < b => \E i, j \in want :
                          /\ i < j
                          /\ fields[i].fieldname = ret.tabs[a]
                          /\ fields[j].fieldname = ret.tabs[b]
        /\ DOMAIN ret.json = Range(ret.tabs)
        /\ \A i \in want : ret.json[fields[i].fieldname] = fields[i]

\* getTabs({excludeHidden: true}) on a form with a hidden tab, an empty tab
\* and a tab that is returned.
C5_Witness ==
    /\ op.name = "getTabs"
    /\ op.excludeHidden
    /\ Len(ret.tabs) = 1
    /\ \E i \in DOMAIN fields : IsTabBreakAt(i) /\ fields[i].hidden /\ DependsOnPasses(i)
    /\ \E i \in DOMAIN fields :
          IsTabBreakAt(i) /\ ~fields[i].hidden /\ TabIsEmpty(i) /\ DependsOnPasses(i)

\* The positions of the visible tabs: the list getTabs({excludeHidden: true}) is to return.
VisiblePositions == ExpectedTabs(TRUE)

\* The position of the visible tab named tab, or 0.
VisiblePositionOf(tab) ==
    IF \E i \in VisiblePositions : fields[i].fieldname = tab
    THEN CHOOSE i \in VisiblePositions : fields[i].fieldname = tab
    ELSE 0

\* The name of the visible tab that follows position i, or Null.
VisibleSuccessor(i) ==
    LET later == { j \in VisiblePositions : j > i } IN
    IF later = {} THEN Null
    ELSE fields[CHOOSE j \in later : \A k \in later : j <= k].fieldname

\* The name of the visible tab that precedes position i, or Null.
VisiblePredecessor(i) ==
    LET earlier == { j \in VisiblePositions : j < i } IN
    IF earlier = {} THEN Null
    ELSE fields[CHOOSE j \in earlier : \A k \in earlier : j >= k].fieldname

\* C3: with the active tab in the filtered tab list, hasNextTab returns
\* hasNext = false and nextTab = null when it is the last entry, and
\* hasNext = true with nextTab its immediate successor in that list otherwise;
\* with no active tab, or one outside the list, it returns false and null.
C3_HasNextTabIsSuccessor ==
    (op.name = "hasNextTab") =>
        LET p == VisiblePositionOf(activeTab) IN
        IF p = 0 \/ VisibleSuccessor(p) = Null
        THEN ret = [hasNext |-> FALSE, nextTab |-> Null]
        ELSE ret = [hasNext |-> TRUE, nextTab |-> VisibleSuccessor(p)]

\* hasNextTab on a visible tab that is followed by a hidden tab and then by
\* its successor in the filtered list.
C3_Witness ==
    /\ op.name = "hasNextTab"
    /\ ret.hasNext
    /\ LET p == VisiblePositionOf(activeTab) IN
       /\ p # 0
       /\ \E h \in DOMAIN fields :
             /\ h > p /\ IsTabBreakAt(h) /\ fields[h].hidden
             /\ h < VisiblePositionOf(ret.nextTab)

\* hasNextTab on the last tab of the filtered list while a hidden tab follows it.
C3_WitnessLast ==
    /\ op.name = "hasNextTab"
    /\ ~ret.hasNext
    /\ LET p == VisiblePositionOf(activeTab) IN
       /\ p # 0
       /\ \E h \in DOMAIN fields : h > p /\ IsTabBreakAt(h)

\* Does the tab at position i hold a field goToTab can scroll to.
HasScrollableField(i) ==
    \E j \in (i + 1)..(TabSpanEnd(i) - 1) :
        fields[j].fieldtype \notin {"Section Break", "Column Break"}

\* What C6 asks of a call that started on tab from and was to reach target
\* (Null when there is none).
NavigatedTo(target) ==
    IF target = Null
    THEN /\ "scroll_to_field" \notin effects
         /\ callbacks = <<>>
         /\ activeTab = op.from
    ELSE /\ "scroll_to_field" \in effects
         /\ activeTab = target

\* The tab goToTab.next (goToTab.previous) is to reach from the tab named from.
NextTarget(from) ==
    IF VisiblePositionOf(from) = 0 THEN Null ELSE VisibleSuccessor(VisiblePositionOf(from))

PreviousTarget(from) ==
    IF VisiblePositionOf(from) = 0 THEN Null ELSE VisiblePredecessor(VisiblePositionOf(from))

Enterable(target) ==
    IF target # Null /\ HasScrollableField(VisiblePositionOf(target)) THEN target ELSE Null

C6_WitnessNoField ==
    /\ op.name = "goToTab.previous"
    /\ PreviousTarget(op.from) # Null
    /\ Enterable(PreviousTarget(op.from)) = Null
    /\ activeTab = op.from

\* C7: when goToTab.next or goToTab.previous completes a navigation, the
\* callback receives a context whose currentTab is the tab navigated to and
\* whose prevTab is the tab the navigation started from.
C7_CallbackGetsOriginAndTarget ==
    (op.name \in {"goToTab.next", "goToTab.previous"} /\ Len(callbacks) > 0) =>
        /\ callbacks[1].currentTab = activeTab
        /\ callbacks[1].prevTab = op.from

\* The hooks of the props that the last step called.
HooksCalled == { callbacks[i].hook : i \in DOMAIN callbacks }

\* The last step changed the tab, started a save or ran afterNavigation.
StepNavigated ==
    \/ activeTab # op.from
    \/ "scroll_to_field" \in effects
    \/ "save" \in effects
    \/ saving # NoSave
    \/ "afterNavigation" \in HooksCalled

\* C8 as stated: when beforeNavigation returns exactly false on a click,
\* navigation is prevented: onNext/onPrev are not called, no save is started,
\* the active tab does not change and afterNavigation is not called; for any
\* other return value the click proceeds to onNext/onPrev or to the default
\* navigation.
C8_FalsePreventsNavigation ==
    /\ (op.name \in {"click", "continueNavigation"} /\ op.before = "false") =>
          /\ HooksCalled \cap {"onNext", "onPrev"} = {}
          /\ ~StepNavigated
    /\ (op.name = "click" /\ op.before \in {"undefined", "true"}) =>
          \/ HooksCalled \cap {"onNext", "onPrev"} # {}
          \/ StepNavigated

\* C8 amended: when beforeNavigation returns exactly false, the click handler
\* returns at once: it calls neither onNext nor onPrev, starts no save, leaves
\* the active tab and does not call afterNavigation; the navigation of that
\* click can still happen, but only when beforeNavigation itself calls the
\* continueNavigation function it was given.  For any other return value the
\* click proceeds to onNext/onPrev or to the default navigation.
C8_FalseStopsTheClickHandler ==
    /\ (op.name = "click" /\ op.before = "false") =>
          /\ HooksCalled = {"beforeNavigation"}
          /\ ~StepNavigated
    /\ (op.name = "continueNavigation" /\ op.before = "false") => op.by = "beforeNavigation"
    /\ (op.name = "click" /\ op.before \in {"undefined", "true"}) =>
          \/ HooksCalled \cap {"onNext", "onPrev"} # {}
          \/ StepNavigated

\* A click on Next that beforeNavigation stopped although the props have
\* onNext and the form is dirty on a tab of saveTabs.
C8_Witness ==
    /\ op.name = "click"
    /\ op.direction = "next"
    /\ op.before = "false"
    /\ handler.props.onNext
    /\ dirty
    /\ shouldSave(handler.props, "next", op.clickTab)
    /\ activeTab = op.from

\* A click that went on after beforeNavigation returned nothing.
C8_WitnessProceeds ==
    /\ op.name = "click"
    /\ op.before = "undefined"
    /\ activeTab # op.from

\* Has the click on the direction button a callback of the props to run.
HasOverride(direction) ==
    IF direction = "next" THEN handler.props.onNext ELSE handler.props.onPrev

OverrideHook(direction) == IF direction = "next" THEN "onNext" ELSE "onPrev"

\* C9, for a click that beforeNavigation did not stop: with onNext (onPrev)
\* in the props a click on Next (Previous) runs that callback and neither
\* changes the tab nor saves; without it the click navigates by default.
C9_ClickRunsOverride ==
    (op.name = "click" /\ op.before # "false") =>
        IF HasOverride(op.direction)
        THEN /\ OverrideHook(op.direction) \in HooksCalled
             /\ ~StepNavigated
             /\ held # NoCont
        ELSE /\ HooksCalled \cap {"onNext", "onPrev"} = {}
             /\ StepNavigated

\* C9, while onNext or onPrev holds continueNavigation: the tab changes or a
\* save starts only in the step in which the callback calls continueNavigation
\* (the user's own tab selection and edits aside), and that call does
\* navigate or save when the tab of the click is still the active one.
C9_NavigationOnlyOnContinue ==
    (held.by \in {"onNext", "onPrev"}) =>
        /\ (activeTab' # activeTab \/ saving' # saving \/ dirty' # dirty) =>
              op'.name \in {"continueNavigation", "selectTab", "userEdits"}
        /\ (op'.name = "continueNavigation" /\ activeTab = held.currentTab) =>
              (activeTab' # activeTab \/ saving' # NoSave)

\* C9: when onNext (onPrev) is supplied, a click on Next (Previous) runs that
\* callback instead of the default navigation, and a tab change or save
\* happens only if and when the callback invokes continueNavigation; without
\* the callback the click navigates by default.
C9_OverrideReplacesNavigation ==
    /\ []C9_ClickRunsOverride
    /\ [][C9_NavigationOnlyOnContinue]_vars

\* onPrev called continueNavigation and the Previous navigation took place.
C9_Witness ==
    /\ op.name = "continueNavigation"
    /\ op.by = "onPrev"
    /\ activeTab # op.from
    /\ "afterNavigation" \in HooksCalled

\* The direction saveConfig asks for, 'bidirectional' when saveConfig or its
\* direction is not given.
SaveDirection(props) ==
    IF props.saveConfig.given /\ props.saveConfig.direction # Undefined
    THEN props.saveConfig.direction
    ELSE "bidirectional"

DirectionMatches(saveDirection, direction) ==
    \/ saveDirection = "bidirectional"
    \/ (saveDirection = "forward" /\ direction = "next")
    \/ (saveDirection = "backward" /\ direction = "previous")

\* C10: on a click whose navigation continues, the save path is taken if and
\* only if the tab active at the click is in saveTabs (or saveTabs has '*')
\* and the click direction matches saveConfig.direction: 'forward' Next only,
\* 'backward' Previous only, 'bidirectional' both, and 'bidirectional' when
\* saveConfig or its direction is not given.
C10_SavePathIffListedAndDirectionMatches ==
    (op.name \in {"click", "continueNavigation"} /\ op.path \in {"save", "direct"}) =>
        ((op.path = "save") <=>
            /\ ("*" \in handler.props.saveTabs \/ op.clickTab \in handler.props.saveTabs)
            /\ DirectionMatches(SaveDirection(handler.props), op.direction))

\* The calls on the form, the DOM and frappe that set a value, save, scroll
\* or register a handler.
FormCalls == {"set_value", "set_df_property", "refresh_field", "dirty", "save",
              "scroll_to_field", "on"}

\* C4: while the form is missing or invalid, every public operation returns
\* early: it does not throw, calls no form setter, save or scroll, and
\* registers no handler.
C4_InvalidFormReturnsEarly ==
    (cur_frm # "form" /\ op.name # "none") =>
        /\ ~threw
        /\ effects \cap FormCalls = {}
        /\ saving = NoSave

\* The tab goToTab({ tab }) is to reach: the named Tab Break when its tab
\* holds a field to scroll to.
GoToTabTarget(tab) ==
    IF \E i \in DOMAIN fields :
          fields[i].fieldname = tab /\ IsTabBreakAt(i) /\ HasScrollableField(i)
    THEN tab ELSE Null

\* The tab a save-and-navigate call is to reach from the tab named from.
SaveTarget(call, from) ==
    CASE call.name = "goToTab.next.save" -> Enterable(NextTarget(from))
      [] call.name = "goToTab.previous.save" -> Enterable(PreviousTarget(from))
      [] OTHER -> GoToTabTarget(call.tab)

SaveVariants == {"goToTab.save", "goToTab.next.save", "goToTab.previous.save"}

\* C11, the call itself: on a dirty form it starts the save and neither
\* changes the tab nor runs the callback; on a clean form it issues no save
\* and navigates at once, running a given callback.
C11_CallSavesOrNavigates ==
    (op.name \in SaveVariants) =>
        IF dirty
        THEN /\ "save" \in effects
             /\ saving # NoSave
             /\ "scroll_to_field" \notin effects
             /\ activeTab = op.from
             /\ callbacks = <<>>
        ELSE /\ "save" \notin effects
             /\ saving = NoSave
             /\ NavigatedTo(SaveTarget(op, op.from))
             /\ Len(callbacks) = (IF op.callback /\ SaveTarget(op, op.from) # Null THEN 1 ELSE 0)

\* C11, while the save is in flight: the tab changes (the user's own tab
\* selection aside) and the callback runs only in the step in which the save
\* completes; a save that does not complete leaves both alone.
C11_NavigationWaitsForSave ==
    (saving # NoSave) =>
        /\ (op'.name # "selectTab" /\ activeTab' # activeTab) => op'.name = "saveCompletes"
        /\ (callbacks' # <<>>) => op'.name = "saveCompletes"
        /\ ("scroll_to_field" \in effects') => op'.name = "saveCompletes"

\* C11: for goToTab.save, goToTab.next.save and goToTab.previous.save, on a
\* dirty form the tab change and the callback happen only after the save has
\* completed, never before or without it; on a clean form no save is issued
\* and the navigation happens at once.
C11_NavigationOnlyAfterSave ==
    /\ []C11_CallSavesOrNavigates
    /\ [][C11_NavigationWaitsForSave]_vars

\* The save started by goToTab.next.save completed, the tab changed and the
\* callback ran.
C11_Witness ==
    /\ op.name = "saveCompletes"
    /\ op.then = "next"
    /\ activeTab # op.from
    /\ Len(callbacks) = 1

\* goToTab.save on a clean form navigated at once.
C11_WitnessClean ==
    /\ op.name = "goToTab.save"
    /\ ~dirty
    /\ activeTab # op.from
    /\ Len(callbacks) = 1

\* C12, the page: once addTabButtons was called, each tab pane holds one
\* nav-buttons container, one click handler is bound for the navigation
\* buttons and one for the custom buttons, and both are those of the latest
\* call.
C12_OneContainerAndHandler ==
    (handler.bound) =>
        /\ \A pane \in TabPanes : Len(page.containers[pane]) = 1
        /\ page.navigation = <<handler>>
        /\ page.custom = << [props |-> handler.props] >>
        /\ (op.name = "addTabButtons") => handler.props = op.props

\* C12, between the calls: only addTabButtons changes the handler, so that a
\* click runs the handler of the latest call and runs it once: it makes one
\* navigation attempt.
C12_ClickRunsLatestHandler ==
    /\ (op'.name # "addTabButtons") =>
          /\ handler' = handler
          /\ page'.containers = page.containers
          /\ page'.navigation = page.navigation
          /\ page'.custom = page.custom
    /\ (op'.name = "click") =>
          /\ page.navigation = <<handler>>
          /\ Len(callbacks') <= 1
          /\ (op'.path = "save") = shouldSave(handler.props, op'.direction, op'.clickTab)

ClickedButton(click) == [tab |-> click.clickTab, direction |-> click.direction]

\* C13, the button: a clicked button is disabled at once.
C13_ClickDisablesButton ==
    (op.name = "click") => ClickedButton(op) \in page.disabled

\* C13, the timer: a disabled button is enabled again only when its timer
\* fires, and until then it takes no click.
C13_EnabledOnlyByTimer ==
    /\ \A button \in page.disabled :
          (button \notin page'.disabled) => (op'.name = "timerFires" /\ op'.button = button)
    /\ (op'.name = "click") => ClickedButton(op') \notin page.disabled

\* C13, the save: while the save of an earlier click is in progress no click
\* starts a navigation.
C13_NoClickDuringSave ==
    (saving # NoSave) => op'.name # "click"

\* C13 as stated: clicks in rapid succession never start a second navigation
\* while the save-and-navigate sequence of an earlier click is in progress: a
\* clicked button is disabled at once and enabled again only when its
\* one-second timer fires.
C13_NoSecondNavigationDuringSave ==
    /\ []C13_ClickDisablesButton
    /\ [][C13_EnabledOnlyByTimer]_vars
    /\ [][C13_NoClickDuringSave]_vars

\* What the click handler does ensure: a clicked button is disabled at once
\* and enabled again only when its one-second timer fires, so that this
\* button starts no second navigation before; the timer does not wait for
\* the save, and the other button of the pane stays enabled.
C13_ClickedButtonDisabledForTimer ==
    /\ []C13_ClickDisablesButton
    /\ [][C13_EnabledOnlyByTimer]_vars

\* The timer of the clicked Next button fired while the save that click
\* started is still in progress.
C13_Witness ==
    /\ op.name = "timerFires"
    /\ op.button.direction = "next"
    /\ saving # NoSave
    /\ saving.then = "next"
    /\ op.button \notin page.disabled

\* A click on Previous changed the tab while the save started by a click on
\* Next was in progress.
C13_WitnessOtherButton ==
    /\ op.name = "click"
    /\ op.direction = "previous"
    /\ op.path = "direct"
    /\ saving # NoSave
    /\ saving.then = "next"
    /\ activeTab # op.from

\* ------------------------------------------------- interceptors (C14 to C17)
\* Has the event happened in the trigger in progress.
Happened(event) == \E i \in DOMAIN interception.log : interception.log[i] = event

\* Has the first event happened, and the second one after it.
HappenedInOrder(first, second) ==
    \E i, j \in DOMAIN interception.log :
        i < j /\ interception.log[i] = first /\ interception.log[j] = second

\* The handlers of a kind that the trigger in progress runs for its action.
Intercepting(kind) ==
    { i \in DOMAIN interception.handlers :
        /\ interception.handlers[i].kind = kind
        /\ interception.handlers[i].action = interception.selected }

DialogEvents == {"confirm dialog", "composer", "edit dialog", "no valid field"}

\* C14: a trigger of the action of a registered action.confirm proceeds only
\* after the user confirmed and, with a field and a value in updateField, after
\* the update then succeeded; once the user declined or the update failed the
\* handler has failed with 'Workflow action cancelled.' and the action never
\* proceeds; a trigger of another action shows no dialog.
C14_ProceedsOnlyConfirmed ==
    \A i \in Intercepting("Confirm") :
        interception.outcome = "proceeded" =>
            /\ HappenedInOrder("confirm dialog", "confirmed")
            /\ HappenedInOrder("confirmed", "proceeded")
            /\ interception.handlers[i].updateField = "given" =>
                   /\ HappenedInOrder("confirmed", "set_value succeeded")
                   /\ HappenedInOrder("set_value succeeded", "proceeded")

C14_CancelFails ==
    (Happened("declined") \/ Happened("set_value failed")) =>
        /\ interception.outcome = "failed"
        /\ interception.error = "Workflow action cancelled."

C14_OtherActionsPass ==
    (\A i \in DOMAIN interception.handlers :
        interception.handlers[i].action # interception.selected) =>
            \A event \in DialogEvents : ~Happened(event)

C14_ConfirmIntercepts ==
    /\ [](C14_ProceedsOnlyConfirmed /\ C14_CancelFails /\ C14_OtherActionsPass)
    /\ [][interception.outcome = "failed" => interception'.outcome # "proceeded"]_vars

\* A trigger proceeded after the user confirmed and the field was updated.
C14_Witness ==
    /\ interception.outcome = "proceeded"
    /\ \E i \in Intercepting("Confirm") : interception.handlers[i].updateField = "given"
    /\ HappenedInOrder("set_value succeeded", "proceeded")

\* A trigger failed after the user declined.
C14_WitnessDeclined ==
    /\ interception.outcome = "failed"
    /\ Happened("declined")

\* A trigger of another action proceeded past the registered handler.
C14_WitnessOtherAction ==
    /\ interception.outcome = "proceeded"
    /\ interception.selected = "Reject"
    /\ \E i \in DOMAIN interception.handlers : interception.handlers[i].kind = "Confirm"

\* The dialogs of a kind that the trigger in progress has shown.
Shown(event) == { i \in DOMAIN interception.log : interception.log[i] = event }

\* C15: a trigger of a workflow action shows at most one confirmation dialog,
\* however many times action.confirm was called for the action.
C15_AtMostOneConfirmDialog == Cardinality(Shown("confirm dialog")) <= 1

\* action.confirm was called again for its action, returning at the flag, and
\* the trigger that followed has shown the dialog.
C15_Witness ==
    /\ op.name = "action.confirm"
    /\ op.action \in WorkflowActions
    /\ effects = {}
    /\ interception.outcome = "running"
    /\ Cardinality(Shown("confirm dialog")) = 1

\* C16: a trigger of the action of a registered action.composeEmail proceeds
\* only after the user clicked Send in the composer; with a setValue of at
\* least one field, the fields are written after the click and before the
\* action proceeds; once the composer was closed without a click on Send the
\* handler has failed and the action never proceeds; the composer hiding after
\* the click changes nothing of the trigger.
C16_ProceedsOnlySent ==
    \A i \in Intercepting("ComposeIntercept") :
        interception.outcome = "proceeded" =>
            /\ HappenedInOrder("composer", "send")
            /\ HappenedInOrder("send", "proceeded")
            /\ interception.handlers[i].setValue =>
                   /\ HappenedInOrder("send", "written")
                   /\ HappenedInOrder("written", "proceeded")

C16_WrittenAfterSend == Happened("written") => HappenedInOrder("send", "written")

C16_ClosedFails ==
    Happened("composer closed") =>
        /\ ~Happened("send")
        /\ interception.outcome = "failed"
        /\ interception.error = "Workflow action cancelled: Email composer was closed."

C16_ComposerIntercepts ==
    /\ [](C16_ProceedsOnlySent /\ C16_WrittenAfterSend /\ C16_ClosedFails)
    /\ [][interception.outcome = "failed" => interception'.outcome # "proceeded"]_vars
    /\ [][(interception.composer = "sent" /\ interception'.composer = "closed") =>
            interception' = [interception EXCEPT !.composer = "closed"]]_vars

\* A trigger proceeded after Send, the writing of the fields and the hiding of
\* the composer.
C16_Witness ==
    /\ interception.outcome = "proceeded"
    /\ \E i \in Intercepting("ComposeIntercept") : interception.handlers[i].setValue
    /\ interception.composer = "closed"
    /\ HappenedInOrder("written", "proceeded")

\* A trigger failed because the composer was closed before Send.
C16_WitnessClosed ==
    /\ interception.outcome = "failed"
    /\ Happened("composer closed")

\* The ways the dialog of action.editFields ends without an update.
EditRejections == {"cancel button", "closed", "update failed", "no valid field"}

\* C17: a trigger of the action of a registered action.editFields proceeds
\* only after the user submitted the dialog and the update then succeeded;
\* after the Cancel button, a close by X or ESC, a failed update or a dialog
\* none of whose fields the form has, the handler has failed and the action
\* never proceeds.
C17_ProceedsOnlyUpdated ==
    \A i \in Intercepting("EditFieldsIntercept") :
        interception.outcome = "proceeded" =>
            /\ HappenedInOrder("edit dialog", "submitted")
            /\ HappenedInOrder("submitted", "updated")
            /\ HappenedInOrder("updated", "proceeded")
            /\ interception.handlers[i].fields \cap fields_dict # {}

C17_RejectionFails ==
    \A event \in EditRejections : Happened(event) => interception.outcome = "failed"

C17_EditFieldsIntercepts ==
    /\ [](C17_ProceedsOnlyUpdated /\ C17_RejectionFails)
    /\ [][interception.outcome = "failed" => interception'.outcome # "proceeded"]_vars

\* A trigger proceeded after the dialog was submitted and the fields updated.
C17_Witness ==
    /\ interception.outcome = "proceeded"
    /\ Intercepting("EditFieldsIntercept") # {}
    /\ HappenedInOrder("updated", "proceeded")

\* A trigger failed in each of the four ways.
C17_WitnessCancel == Happened("cancel button") /\ interception.outcome = "failed"

C17_WitnessClose == Happened("closed") /\ interception.outcome = "failed"

C17_WitnessUpdateFailed == Happened("update failed") /\ interception.outcome = "failed"

C17_WitnessNoValidField == Happened("no valid field") /\ interception.outcome = "failed"

\* ----------------------------------------------------- observer (C18 to C20)
\* Does a change of its field make the i-th watcher invoke its callback.
Fires(i) == FlagOf(observer.handlers[i].flagName)

\* C18: the watchers on one field have ids that differ from each other.
C18_IdsUniquePerField ==
    \A i, j \in DOMAIN observer.handlers :
        (i # j /\ observer.handlers[i].field = observer.handlers[j].field)
            => observer.handlers[i].id # observer.handlers[j].id

\* What holds of the watchers whose ids differ: after a watch call on a field
\* that has a watcher with another id, a change of the field invokes the
\* callback of each watcher whose flag is set, the new one included.
C18_DistinctIdsFireIndependently ==
    (op.name = "fieldChanges" /\ C18_IdsUniquePerField) =>
        \A i \in DOMAIN observer.handlers :
            (observer.handlers[i].field = op.field /\ Fires(i))
                <=> (\E k \in DOMAIN callbacks : callbacks[k].watcher = i)

\* The watchers that the call o names: the one whose unwatch() it is, or
\* those of the id on the listed fields; none for any other call.
UnwatchedBy(o) ==
    IF o.name = "watcher.unwatch" THEN {o.watcher}
    ELSE IF o.name = "observer.unwatch"
    THEN IF o.id = Undefined THEN {}
         ELSE { i \in DOMAIN observer.handlers :
                  /\ observer.handlers[i].field \in Range(o.fields)
                  /\ observer.handlers[i].id = o.id }
    ELSE {}

\* C19: a watcher disabled by observer.unwatch with its id, or by its
\* unwatch() method, is not enabled again by the step that follows.
C19_UnwatchedStaysDisabled ==
    [][\A i \in UnwatchedBy(op) : ~Fires(i)']_vars

\* What holds of such a call: it disables the watchers it names, and leaves
\* the flag of every watcher with another id or on another field as it was.
C19_UnwatchDisablesOnlyThat ==
    [][\A i \in UnwatchedBy(op') :
          /\ ~Fires(i)'
          /\ \A j \in DOMAIN observer.handlers :
                observer.handlers[j].flagName # observer.handlers[i].flagName
                    => \/ Fires(j)' = Fires(j)
                       \/ \E k \in UnwatchedBy(op') :
                            observer.handlers[k].flagName = observer.handlers[j].flagName]_vars

\* Is the call o an observer.unwatch without an id.
BroadUnwatch(o) ==
    IF o.name = "observer.unwatch" THEN o.given /\ o.id = Undefined ELSE FALSE

\* C20: observer.unwatch without an id leaves the watchers on every field it
\* does not list as they were.
C20_UnlistedFieldsKeepWatchers ==
    [][BroadUnwatch(op') =>
          \A i \in DOMAIN observer.handlers :
              observer.handlers[i].field \notin Range(op'.fields) => Fires(i)' = Fires(i)]_vars

\* What holds of such a call: no watcher on a listed field is enabled after
\* it, whatever its id, and the watchers on the fields whose name does not
\* begin with a listed name and an underscore are as they were.
C20_ListedFieldsAreUnwatched ==
    [][BroadUnwatch(op') =>
          \A i \in DOMAIN observer.handlers :
              /\ observer.handlers[i].field \in Range(op'.fields) => ~Fires(i)'
              /\ (\A n \in DOMAIN op'.fields :
                     ~startsWith(observer.handlers[i].flagName, op'.fields[n]))
                   => Fires(i)' = Fires(i)]_vars

\* ----------------------------------------------------- workflow (C21, C22)
\* The pairs of a state and an action that the table has.
StateActionPairs == { <<form.transitions[i].state, form.transitions[i].action>> :
                        i \in DOMAIN form.transitions }

\* C21: from every start state, on every table (with cycles and self-loops),
\* the recursion of getFutureTransitions ends: it never goes deeper than one
\* call for each pair of a state and an action of the table and one more, the
\* stack never overflows, and the call returns an array.
C21_RecursionIsBounded ==
    /\ \A start \in WorkflowStates :
          LET collected == collectTransitions(form.transitions, start) IN
          /\ ~collected.overflow
          /\ collected.deepest <= Cardinality(StateActionPairs) + 1
    /\ op.name = "workflow.getFutureTransitions" => (ret.type = "array" /\ ~threw)

\* getFutureTransitions returned the three transitions of a table with a
\* self-loop and a cycle between two states.
C21_Witness ==
    /\ op.name = "workflow.getFutureTransitions"
    /\ Len(ret.value) = 3
    /\ \E i \in DOMAIN ret.value : ret.value[i].state = ret.value[i].next_state
    /\ \E i, j \in DOMAIN ret.value :
          /\ ret.value[i].state # ret.value[j].state
          /\ ret.value[i].next_state = ret.value[j].state
          /\ ret.value[j].next_state = ret.value[i].state

\* The states reached from the states in reached by following next_state.
RECURSIVE reachable(_)
reachable(reached) ==
    LET next == reached \cup { form.transitions[i].next_state :
                                 i \in { j \in DOMAIN form.transitions :
                                           form.transitions[j].state \in reached } }
    IN IF next = reached THEN reached ELSE reachable(next)

\* The start state of the getFutureTransitions call that was made.
startState == IF op.state # Undefined THEN op.state ELSE form.workflow_state

\* getFutureTransitions was called on a form with a start state and a table.
FutureTransitionsCollected ==
    /\ op.name = "workflow.getFutureTransitions"
    /\ HasDoctype
    /\ startState # ""
    /\ form.transitions # <<>>

\* C22: getFutureTransitions returns exactly the transitions whose source
\* state is reachable from the start state, each of them once.
C22_ReturnsAllReachable ==
    FutureTransitionsCollected =>
        /\ Range(ret.value) = { transitionObject(form.transitions[i]) :
                                  i \in { j \in DOMAIN form.transitions :
                                            form.transitions[j].state \in reachable({startState}) } }
        /\ \A i, j \in DOMAIN ret.value : ret.value[i] = ret.value[j] => i = j

\* What holds of the call: every transition returned is a row of the table
\* whose source state is reachable, and no two of them have the same state
\* and action.
C22_ReturnsOnePerStateAndAction ==
    FutureTransitionsCollected =>
        /\ Range(ret.value) \subseteq { transitionObject(form.transitions[i]) :
                                  i \in { j \in DOMAIN form.transitions :
                                            form.transitions[j].state \in reachable({startState}) } }
        /\ \A i, j \in DOMAIN ret.value :
              (ret.value[i].state = ret.value[j].state /\ ret.value[i].action = ret.value[j].action)
                  => i = j

\* ------------------------------------------------------------ hideFields (C23)
\* hideFields was called on a form with a list that names the field at i and
\* with no conditional or a function.
HidesField(call, i) ==
    /\ call.name = "hideFields"
    /\ cur_frm = "form"
    /\ call.conditional # "other"
    /\ fields[i].fieldname \in Range(call.fields)

\* C23: hideFields without a conditional sets every listed field of the form
\* hidden unless the workflow state is an exception state, and shown then;
\* with a conditional a field is set hidden exactly when the conditional is
\* truthy and the state is no exception state.
C23_HiddenUnlessExceptionState ==
    [][\A i \in DOMAIN fields :
          HidesField(op', i) =>
              /\ ~threw'
              /\ fields'[i].hidden =
                    (/\ form.workflow_state \notin Range(op'.exceptionStates)
                     /\ op'.conditional \in {"absent", "truthy"})]_vars

\* What holds of the call: with a conditional the listed fields of the form
\* are set hidden exactly when it is truthy and the state is no exception
\* state; without one the call throws and sets nothing.
C23_HiddenIffConditionalGiven ==
    [][\A i \in DOMAIN fields :
          HidesField(op', i) =>
              IF op'.conditional = "absent"
              THEN threw' /\ fields' = fields
              ELSE /\ ~threw'
                   /\ fields'[i].hidden =
                         (/\ form.workflow_state \notin Range(op'.exceptionStates)
                          /\ op'.conditional = "truthy")]_vars

\* --------------------------------------------------------- checkMandatory (C24)
\* The listed fields that exist in the form and are empty on the document.
FoundEmpty(listed) == { f \in Range(listed) : f \in fields_dict /\ doc[f] = FALSE }

\* C24: checkMandatory sets reqd on exactly the listed fields that exist in
\* the form and are empty on the document, marks the form dirty if and only
\* if it found such a field, and changes no value of the document and no
\* property of another field.
C24_MarksExactlyFoundFields ==
    [][(op'.name = "checkMandatory" /\ HasMetaFields) =>
          /\ reqd' = reqd \cup FoundEmpty(op'.fields)
          /\ ("dirty" \in effects') = (FoundEmpty(op'.fields) # {})
          /\ dirty' = (dirty \/ FoundEmpty(op'.fields) # {})
          /\ ("set_df_property" \in effects') = (FoundEmpty(op'.fields) # {})
          /\ doc' = doc
          /\ fields' = fields]_vars

\* A call that listed an empty and a filled field of a form with a third,
\* empty field, and one that found nothing and left the form clean.
C24_Witness ==
    /\ op.name = "checkMandatory"
    /\ Len(op.fields) = 2
    /\ op.fields[1] \in fields_dict /\ doc[op.fields[1]] = FALSE
    /\ op.fields[2] \in fields_dict /\ doc[op.fields[2]] = TRUE
    /\ reqd = {op.fields[1]}
    /\ dirty
    /\ \E other \in fields_dict \ Range(op.fields) : doc[other] = FALSE

C24_WitnessNothingFound ==
    /\ op.name = "checkMandatory"
    /\ Len(op.fields) = 2
    /\ op.fields[1] \in fields_dict /\ doc[op.fields[1]] = TRUE
    /\ op.fields[2] \notin fields_dict /\ doc[op.fields[2]] = FALSE
    /\ ret = JsTrue
    /\ reqd = {}
    /\ ~dirty

\* ----------------------------------------------------------------- console (C25)
\* The writes to the console.
ConsoleWrites == {"console.warn", "console.debug"}

\* C25: in a production environment no operation writes to the console.
C25_ProductionIsSilent ==
    getEnvironment = "production" => effects \cap ConsoleWrites = {}

\* What holds in production: the messages that are written under
\* `debug && isDevelopment` are not written, and the only writes are the
\* warnings of the workflow helpers and of the observer for a field that the
\* form lacks.
C25_ProductionWritesOnlyWarnings ==
    getEnvironment = "production" =>
        /\ "console.debug" \notin effects
        /\ "console.warn" \in effects =>
              \/ op.name \in {"workflow.getTransitions", "workflow.getAllTransitions",
                               "workflow.getFutureTransitions"}
              \/ op.name = "observer.watch" /\ op.field \notin fields_dict
              \/ op.name = "observer.unwatch" /\ Range(op.fields) \ fields_dict # {}

\* --------------------------------------------------------- getFieldsInTab (C26)
\* C26: on every metadata list and for every tab name the refactored
\* getFieldsInTab returns the fields list and the json map that the previous,
\* flag-based implementation returns.
C26_SameAsPreviousImplementation ==
    /\ HasMetaFields =>
          \A tab \in DocNames \cup {Undefined} : getFieldsInTab(tab) = getFieldsInTabPrevious(tab)
    /\ (op.name = "getFieldsInTab" /\ HasMetaFields) =>
          /\ ret.fields = getFieldsInTabPrevious(op.tab).fields
          /\ ret.json = getFieldsInTabPrevious(op.tab).json

\* A call on a tab that follows another Tab Break, holds one field and is
\* closed by a third Tab Break; and a call with the name of a field that is
\* no Tab Break.
C26_Witness ==
    /\ op.name = "getFieldsInTab"
    /\ Len(fields) = 4
    /\ IsTabBreakAt(1) /\ IsTabBreakAt(2) /\ ~IsTabBreakAt(3) /\ IsTabBreakAt(4)
    /\ fields[2].fieldname = op.tab
    /\ ret.fields = << fields[3].fieldname >>
    /\ ret = getFieldsInTabPrevious(op.tab)

C26_WitnessNotATab ==
    /\ op.name = "getFieldsInTab"
    /\ \E s \in DOMAIN fields :
          /\ fields[s].fieldname = op.tab /\ ~IsTabBreakAt(s)
          /\ s > 1 /\ IsTabBreakAt(s - 1)
    /\ ret.fields = <<>>
    /\ getFieldsInTabPrevious(op.tab).fields = <<>>

\* ------------------------------------------------------- goToTab.next (C27)
\* The active tab is in the list of visible tabs, and is its last entry.
OnVisibleTab == VisiblePositionOf(activeTab) # 0

OnLastVisibleTab == OnVisibleTab /\ VisibleSuccessor(VisiblePositionOf(activeTab)) = Null

\* C27: from any visible tab, each call of goToTab.next makes the next
\* visible tab the active one, and repeated calls make the last visible tab
\* active: the navigation is never stuck on a tab that is not the last one.
C27_NextReachesLastTab ==
    /\ [][(op'.name = "goToTab.next" /\ NextTarget(activeTab) # Null) =>
              activeTab' = NextTarget(activeTab)]_vars
    /\ OnVisibleTab ~> OnLastVisibleTab

\* What holds: a call moves to the next visible tab when that tab holds a
\* field other than a Section Break or Column Break, and moves nowhere
\* otherwise.
C27_NextReachesEnterableTab ==
    [][op'.name = "goToTab.next" =>
          activeTab' = (IF Enterable(NextTarget(activeTab)) # Null
                        THEN NextTarget(activeTab) ELSE activeTab)]_vars

\* ------------------------------------------------------ action.editFields (C28)
\* The promise of the handler of action.editFields was rejected.
EditRejected == \E event \in EditRejections : Happened(event)

\* C28: when the values submitted in the dialog of action.editFields have
\* been written to the document, the handler has not cancelled the workflow
\* action, also when an update failed and the dialog was submitted again.
C28_WrittenOnlyWhenProceeding == interception.written => ~EditRejected

\* What holds: when the first update of a dialog succeeds before the dialog
\* is cancelled or closed, the values are written and the promise is resolved.
C28_FirstUpdateResolves ==
    [][(EditPromisePending /\ EditUpdating /\ interception'.written) =>
          /\ interception'.log = Append(interception.log, "updated")
          /\ interception'.outcome = "running"
          /\ interception'.dialog = "none"]_vars

\* ----------------------------------------------------- custom tab buttons (C29)
\* C29: a click on a rendered custom button invokes the callback of the
\* configuration it was rendered from, the one whose label it shows, also
\* when the workflow state or the result of a conditional has changed since
\* it was rendered.
C29_ClickInvokesRenderedConfig ==
    [][op'.name = "clickCustom" =>
          callbacks' = << [hook |-> "callback", label |-> op'.label, tab |-> op'.tab] >>]_vars

\* The labels of the configurations that pass the filter for a tab now.
ApplicableLabels(tab) ==
    LET now == applicableButtons(handler.props, tab) IN
    [index \in DOMAIN now |-> now[index].label]

\* The labels of the buttons rendered on the pane of a tab.
RenderedLabels(tab) ==
    [index \in DOMAIN page.rendered[tab] |-> page.rendered[tab][index].label]

\* What holds: while the configurations that pass the filter are those that
\* passed it at rendering, a click invokes the callback of the configuration
\* whose label the button shows; otherwise it invokes the callback of the
\* configuration that is now at the button's index, or none.
C29_ClickInvokesConfigAtIndex ==
    [][op'.name = "clickCustom" =>
          LET now == ApplicableLabels(op'.tab) IN
          /\ (now = RenderedLabels(op'.tab)) =>
                callbacks' = << [hook |-> "callback", label |-> op'.label, tab |-> op'.tab] >>
          /\ callbacks' = (IF op'.cbIndex + 1 \in DOMAIN now
                           THEN << [hook |-> "callback", label |-> now[op'.cbIndex + 1],
                                    tab |-> op'.tab] >>
                           ELSE <<>>)]_vars

\* ------------------------------------------------- registration flags (C30)
\* The kind of interceptor that a function of Utils.action registers.
KindOf(name) ==
    CASE name = "action.confirm" -> "Confirm"
      [] name = "action.composeEmail" -> "ComposeIntercept"
      [] name = "action.editFields" -> "EditFieldsIntercept"

\* A call of a function of Utils.action for an action whose flag is set.
RegistersAgain(call) ==
    /\ call.name \in {"action.confirm", "action.composeEmail", "action.editFields"}
    /\ call.action # Undefined
    /\ [kind |-> KindOf(call.name), action |-> toCamelCase(call.action)] \in frappe.flags

\* C30: the flag of a registration is keyed by the kind of interceptor and
\* the camel-cased action only: once it is set, a later call of that kind for
\* the action registers nothing, whatever its options and the doctype of the
\* current form; the handlers registered stay as they are, with the doctype
\* and the options of their registration, at most one for a kind and an
\* action.
C30_FirstRegistrationStays ==
    /\ [][RegistersAgain(op') => (frappe' = frappe /\ ~threw')]_vars
    /\ [][\A i \in DOMAIN frappe.on :
              i \in DOMAIN frappe'.on /\ frappe'.on[i] = frappe.on[i]]_vars
    /\ [](\A i, j \in DOMAIN frappe.on :
              (/\ frappe.on[i].kind = frappe.on[j].kind
               /\ toCamelCase(frappe.on[i].action) = toCamelCase(frappe.on[j].action))
                  => i = j)

\* action.confirm was called on a form of another doctype and with another
\* updateField than those of the registration, and registered nothing: the
\* trigger on the form of the first doctype runs the first handler, and the
\* one on the form of the other doctype runs none.
C30_Witness ==
    /\ op.name = "action.confirm"
    /\ op.action \in WorkflowActions
    /\ effects = {}
    /\ Len(frappe.on) = 1
    /\ frappe.on[1].kind = "Confirm"
    /\ frappe.on[1].doctype # form.doctype
    /\ frappe.on[1].updateField # op.updateField

C30_WitnessOtherDoctype ==
    /\ interception.outcome = "running"
    /\ interception.handlers = <<>>
    /\ \E i \in DOMAIN frappe.on :
          frappe.on[i].action = interception.selected /\ frappe.on[i].doctype # form.doctype
====
